---------------------------- MODULE Spec2Model ----------------------------
(***************************************************************************)
(* A model of the fakessh honeypot's connection handling:                  *)
(*   internal/sshserver/server.go  (NewServer, Start, handleConnection,    *)
(*                                  passwordCallback, bannerCallback,      *)
(*                                  generatePrivateKey, loadPrivateKey)    *)
(*   internal/logger               (CredentialsLogger.Log)                 *)
(*   internal/config               (DefaultConfig, LoadConfig, Validate,   *)
(*                                  GetFullServerVersion)                  *)
(*   cmd/fakessh                   (main's RunE up to NewServer)           *)
(* The SSH transport library (golang.org/x/crypto/ssh) is the environment: *)
(* its authentication loop is modelled as far as the ServerConfig built by *)
(* NewServer decides it.                                                   *)
(***************************************************************************)
EXTENDS Integers, Sequences, FiniteSets, TLC

(***************************************************************************)
(* Bounds of the model.                                                    *)
(***************************************************************************)
\* times listener.Accept returns in one run, with a connection or with an error
MaxConns == 2
\* messages received after key exchange in one run, all connections together:
\* authentication requests of any method, channel opens, global requests
MaxMsgs == 3
\* seconds the clock advances in one run
MaxTime == 2
\* calls of NewServer in one run of the construction specification
MaxConstructions == 4

(***************************************************************************)
(* Program constants.                                                      *)
(***************************************************************************)
\* time.Duration(200+rand.Intn(300)) * time.Millisecond
DelayMin == 200
DelayJitter == 300
\* ssh.ServerConfig.MaxAuthTries is left unset by NewServer: the library's default
MaxAuthTries == 6

Conns == 1..MaxConns

(***************************************************************************)
(* Values.                                                                 *)
(***************************************************************************)
\* error values: nil, and the error passwordCallback builds with fmt.Errorf
Nil == "nil"
PermissionDenied == "permission denied (password), please try again"
\* an error a sink could return from Log
SinkWriteError == "write error"
\* *ssh.Permissions
NilPermissions == "nil permissions"
SomePermissions == "permissions"

\* user names and passwords are byte strings as received on the wire:
\* "root" with "hunter2", and the empty user name with a password of
\* control characters (BEL, NUL, LF)
Root == <<114, 111, 111, 116>>
Hunter2 == <<104, 117, 110, 116, 101, 114, 50>>
Control == <<7, 0, 10>>
RootSubmission == [user |-> Root, password |-> Hunter2]
ControlSubmission == [user |-> << >>, password |-> Control]
Submissions == { RootSubmission, ControlSubmission }

\* authentication methods a client can name besides "password"
OtherMethods == {"none", "publickey", "keyboard-interactive"}

\* what rand.Intn(n) can return: the ends and the middle of 0..n-1
RandIntn(n) == {0, n \div 2, n - 1}

NoMsg == [user |-> <<>>, password |-> <<>>, ts |-> 0, none |-> TRUE]

VARIABLES
    startPc,        \* Server.Start: "listen", "accept" (in the for loop), "returned";
                    \* "new" while there is no server to start
    listener,       \* the listening endpoint: "none", "open", "closed"
    accepted,       \* connections accepted so far
    acceptErrors,   \* errors Accept returned so far
    operatorOut,    \* lines Start printed with fmt.Printf
    config,         \* Server.config: the resolved configuration NewServer was given
    sshConfig,      \* Server.sshConfig, as NewServer built it
    privateKey,     \* Server.privateKey
    entropy,        \* keys drawn from crypto/rand.Reader so far
    constructed,    \* history: every call of NewServer with what it returned
    output,         \* CredentialsLogger.output: "file" or "stdout"; "none" before
                    \* NewCredentialsLogger is called
    credFile,       \* records written through CredentialsLogger.logger (the log file)
    globalLog,      \* events written through zerolog's global logger
    now,            \* the wall clock, in seconds
    mainPc,         \* main's RunE: "load", "flags", "validate", "valid", "invalid",
                    \* "failed" (LoadConfig returned an error)
    flags,          \* the command line: per flag, whether it was passed, and its value
    environ,        \* the process environment: per variable, os.LookupEnv's answer
    cfgFile,        \* --config and the file it names
    validateErr,    \* what cfg.Validate returned
    pc,             \* per connection: where its handling goroutine is
    transport,      \* per connection: the net.Conn: "none", "open", "closed"
    sshConn,        \* per connection: the *ssh.ServerConn: "none", "open", "closed"
    chanReplies,    \* history: the answers to the channel opens, per connection
    reqReplies,     \* history: the global requests and their answers, per connection
    hostKey,        \* per connection: the host key its key exchange was signed with
    banner,         \* per connection: the banners sent to the client
    cur,            \* per connection: the password request passwordCallback is serving
    logErr,         \* per connection: what s.logger.Log returned for it
    delay,          \* per connection: the duration handed to time.Sleep (ms)
    authFailures,   \* per connection: the library's count of failed requests
    received,       \* history: the password requests received, per connection
    others,         \* history: requests of other methods received, per connection
    logCalls,       \* history: the attempts passed to CredentialsLogger.Log, in call order
    replies         \* history: what passwordCallback returned, per connection

vars == << startPc, listener, accepted, acceptErrors, operatorOut,
           config, sshConfig, privateKey, entropy, constructed, output,
           credFile, globalLog, now, mainPc, flags, environ, cfgFile, validateErr, pc, transport, sshConn, chanReplies, reqReplies,
           hostKey, banner, cur, logErr, delay, authFailures,
           received, others, logCalls, replies >>


(***************************************************************************)
(* The configuration: the Config struct with DefaultConfig's values.       *)
(***************************************************************************)
DefaultConfig ==
    [ Port           |-> 2222,
      Log            |-> [File |-> "credentials.log", Format |-> "json"],
      Banner         |-> "Ubuntu-4ubuntu0.5",
      ServerVersion  |-> "OpenSSH_8.2p1",
      PrivateKeyPath |-> "",
      GenerateKey    |-> TRUE ]

\* the numbers a configuration holds: Port is the only numeric field of Config
NumericSettings(cfg) == { cfg.Port }

\* the log destinations a run is started with
LogFiles == {"credentials.log", "stdout"}

\* NewCredentialsLogger: os.Stdout for "stdout", else the file opened for appending
LoggerOutput(logFile) == IF logFile = "stdout" THEN "stdout" ELSE "file"

(***************************************************************************)
(* NewServer: the ssh.ServerConfig it builds.  The literal sets three      *)
(* fields; every other field keeps Go's zero value (a nil callback, false, *)
(* 0).                                                                     *)
(***************************************************************************)
\* a ServerConfig that also sets NoClientAuth
NewServerSSHConfig_NoClientAuth ==
    [ PasswordCallback            |-> "passwordCallback",
      BannerCallback              |-> "bannerCallback",
      PublicKeyCallback           |-> Nil,
      KeyboardInteractiveCallback |-> Nil,
      NoClientAuth                |-> TRUE,
      MaxAuthTries                |-> 0 ]

NewServerSSHConfig ==
    [ PasswordCallback            |-> "passwordCallback",
      BannerCallback              |-> "bannerCallback",
      PublicKeyCallback           |-> Nil,
      KeyboardInteractiveCallback |-> Nil,
      NoClientAuth                |-> FALSE,
      MaxAuthTries                |-> 0 ]

\* the callback the library consults for a method; none exists for "none"
CallbackFor(cfg, method) ==
    CASE method = "password"             -> cfg.PasswordCallback
      [] method = "publickey"            -> cfg.PublicKeyCallback
      [] method = "keyboard-interactive" -> cfg.KeyboardInteractiveCallback
      [] OTHER                           -> Nil

\* the methods the server names in its failure responses
OfferedMethods(cfg) ==
    { m \in {"password", "publickey", "keyboard-interactive"} : CallbackFor(cfg, m) # Nil }

\* MaxAuthTries = 0 means the library's default
EffectiveMaxAuthTries(cfg) ==
    IF cfg.MaxAuthTries = 0 THEN MaxAuthTries ELSE cfg.MaxAuthTries

(***************************************************************************)
(* Config.GetFullServerVersion and Server.bannerCallback.                  *)
(***************************************************************************)
\* the values of ServerVersion and Banner a server is configured with
ServerVersions == {"OpenSSH_8.2p1", "TestSSH_1.0"}
Banners == {"Ubuntu-4ubuntu0.5", "Test-Banner", ""}

\* a GetFullServerVersion with its two arguments in the wrong order
GetFullServerVersion_Swapped(cfg) == "SSH-2.0-" \o cfg.Banner \o " " \o cfg.ServerVersion

\* fmt.Sprintf("SSH-2.0-%s %s", c.ServerVersion, c.Banner)
GetFullServerVersion(cfg) == "SSH-2.0-" \o cfg.ServerVersion \o " " \o cfg.Banner

\* a bannerCallback that greets root differently
bannerCallback_GreetsRoot(cfg, conn) ==
    IF conn.user = Root
      THEN "Welcome back, root\n\n"
      ELSE "Welcome to Ubuntu " \o cfg.Banner \o " (GNU/Linux 5.4.0-109-generic x86_64)\n\n"

\* fmt.Sprintf("Welcome to Ubuntu %s (GNU/Linux 5.4.0-109-generic x86_64)\n\n", s.config.Banner);
\* conn is the ssh.ConnMetadata the library passes: the user and the remote address
bannerCallback(cfg, conn) ==
    "Welcome to Ubuntu " \o cfg.Banner \o " (GNU/Linux 5.4.0-109-generic x86_64)\n\n"

(***************************************************************************)
(* NewServer: the host key.  A key is a record of where it came from and,  *)
(* for a generated key, which draw from crypto/rand.Reader it is: two      *)
(* draws never give the same 2048-bit key.                                 *)
(***************************************************************************)
NoKey == [kind |-> "none", id |-> 0]
\* the key in the defaultHostKey constant
EmbeddedKey == [kind |-> "embedded", id |-> 0]
\* the key in the key file
FileKey == [kind |-> "file", id |-> 0]

\* the file system NewServer runs on: one well-formed key file, one file that
\* is not a key, and nothing at any other path
ValidKeyPath == "/etc/fakessh/host.key"
GarbageKeyPath == "/etc/fakessh/host.key.txt"
MissingKeyPath == "/non/existing/path.key"
\* a file that exists and that the server's user may not read
UnreadableKeyPath == "/etc/ssh/ssh_host_rsa_key"
KeyPaths == {"", ValidKeyPath, GarbageKeyPath, MissingKeyPath}

FileContents(path) ==
    CASE path = ValidKeyPath   -> "pem"
      [] path = GarbageKeyPath -> "garbage"
      [] path = UnreadableKeyPath -> "unreadable"
      [] OTHER                 -> "absent"

\* a generatePrivateKey that generates once and hands out that key ever after
generatePrivateKey_Cached(drawn, ok) ==
    IF ok THEN [key |-> [kind |-> "generated", id |-> 1], err |-> Nil]
          ELSE [key |-> NoKey, err |-> "failed to generate RSA key"]

\* generatePrivateKey, after `drawn` keys were drawn before; ok is whether
\* rsa.GenerateKey succeeds
generatePrivateKey(drawn, ok) ==
    IF ok THEN [key |-> [kind |-> "generated", id |-> drawn + 1], err |-> Nil]
          ELSE [key |-> NoKey, err |-> "failed to generate RSA key"]

\* a loadPrivateKey that falls back to the built-in key when the file is unusable
loadPrivateKey_FallsBack(path) ==
    IF FileContents(path) = "pem" THEN [key |-> FileKey, err |-> Nil]
                                  ELSE [key |-> EmbeddedKey, err |-> Nil]

\* loadPrivateKey: ioutil.ReadFile, then ssh.ParsePrivateKey
loadPrivateKey(path) ==
    IF FileContents(path) \in {"absent", "unreadable"}
      THEN [key |-> NoKey, err |-> "failed to read key file"]
      ELSE IF FileContents(path) # "pem"
             THEN [key |-> NoKey, err |-> "failed to parse SSH key"]
             ELSE [key |-> FileKey, err |-> Nil]

\* ssh.ParsePrivateKey([]byte(defaultHostKey))
ParseDefaultHostKey == [key |-> EmbeddedKey, err |-> Nil]

\* the error NewServer wraps a strategy's error in
WrapKeyError(prefix, r) ==
    IF r.err = Nil THEN Nil ELSE prefix \o ": " \o r.err

\* a key selection in which a configured path takes precedence over GenerateKey
ResolveKey_PathFirst(cfg, drawn, ok) ==
    IF cfg.PrivateKeyPath # ""
      THEN LET r == loadPrivateKey(cfg.PrivateKeyPath)
           IN [ key |-> r.key, err |-> WrapKeyError("key loading error", r),
                calls |-> << "loadPrivateKey" >> ]
      ELSE IF cfg.GenerateKey
        THEN LET r == generatePrivateKey(drawn, ok)
             IN [ key |-> r.key, err |-> WrapKeyError("key generation error", r),
                  calls |-> << "generatePrivateKey" >> ]
        ELSE LET r == ParseDefaultHostKey
             IN [ key |-> r.key, err |-> WrapKeyError("built-in key parsing error", r),
                  calls |-> << "ParsePrivateKey(defaultHostKey)" >> ]

\* the if / else if / else of NewServer; calls is the key functions it called
ResolveKey(cfg, drawn, ok) ==
    IF cfg.GenerateKey
      THEN LET r == generatePrivateKey(drawn, ok)
           IN [ key |-> r.key, err |-> WrapKeyError("key generation error", r),
                calls |-> << "generatePrivateKey" >> ]
      ELSE IF cfg.PrivateKeyPath # ""
        THEN LET r == loadPrivateKey(cfg.PrivateKeyPath)
             IN [ key |-> r.key, err |-> WrapKeyError("key loading error", r),
                  calls |-> << "loadPrivateKey" >> ]
        ELSE LET r == ParseDefaultHostKey
             IN [ key |-> r.key, err |-> WrapKeyError("built-in key parsing error", r),
                  calls |-> << "ParsePrivateKey(defaultHostKey)" >> ]

\* the ssh.ServerConfig of a server: the literal, then AddHostKey(privateKey)
ServerSSHConfig(cfg, key) ==
    NewServerSSHConfig @@
    [ ServerVersion |-> GetFullServerVersion(cfg), HostKeys |-> << key >> ]

\* *Server: the empty sequence is the nil pointer, << s >> points to s
NilServer == << >>

\* a NewServer that returns the half-built server together with the error
NewServer_ServerWithError(cfg, drawn, ok) ==
    LET r == ResolveKey(cfg, drawn, ok)
    IN [ server |-> << [ config     |-> cfg,
                         privateKey |-> r.key,
                         sshConfig  |-> ServerSSHConfig(cfg, r.key) ] >>,
         err    |-> r.err,
         calls  |-> r.calls ]

\* NewServer(config, logger): what it returns, and the key functions it called
NewServer(cfg, drawn, ok) ==
    LET r == ResolveKey(cfg, drawn, ok)
    IN IF r.err # Nil
         THEN [ server |-> NilServer, err |-> r.err, calls |-> r.calls ]
         ELSE [ server |-> << [ config     |-> cfg,
                                privateKey |-> r.key,
                                sshConfig  |-> ServerSSHConfig(cfg, r.key) ] >>,
                err    |-> Nil,
                calls  |-> r.calls ]

\* a handshake that signs with a key made for the connection
HandshakeKey_PerConnection(cfg, c) == [kind |-> "generated", id |-> c + 1]

\* ssh.NewServerConn(conn, s.sshConfig): the key the exchange is signed with
HandshakeKey(cfg, c) == cfg.HostKeys[1]

(***************************************************************************)
(* main's RunE up to cfg.Validate: config.LoadConfig (defaults, the file   *)
(* named by --config, the FAKESSH_ environment variables), then the flags  *)
(* that were passed, then Validate.  viper is the environment: a variable  *)
(* is looked up as FAKESSH_<KEY>, and one that is set to the empty string  *)
(* counts as not set (AllowEmptyEnv is off); IsSet and Get look at the     *)
(* environment first and at the file that was read second.                 *)
(***************************************************************************)
Settings == {"port", "log", "log-format", "banner", "server-version", "key", "generate-key"}

\* the keys LoadConfig asks viper for
ViperKeys == {"PORT", "LOG_FILE", "LOG_FORMAT", "BANNER", "SERVER_VERSION",
              "PRIVATE_KEY_PATH", "GENERATE_KEY"}

\* the keys of Config in a configuration file (the mapstructure tags)
FileKeys == {"port", "log.file", "log.format", "banner", "server_version",
             "private_key_path", "generate_key"}

\* the variable the README documents for the key path
ReadmeKeyVariable == "FAKESSH_KEY"

\* viper.SetEnvPrefix("FAKESSH"): the variable AutomaticEnv reads for a key
EnvKey(key) == "FAKESSH_" \o key

EnvNames == {EnvKey(key) : key \in ViperKeys} \cup {ReadmeKeyVariable}

\* the key as viper looks it up in the file: lower-cased, not split
LowerKey(key) ==
    CASE key = "PORT"             -> "port"
      [] key = "LOG_FILE"         -> "log_file"
      [] key = "LOG_FORMAT"       -> "log_format"
      [] key = "BANNER"           -> "banner"
      [] key = "SERVER_VERSION"   -> "server_version"
      [] key = "PRIVATE_KEY_PATH" -> "private_key_path"
      [] key = "GENERATE_KEY"     -> "generate_key"

\* the flags' default values (rootCmd.Flags().IntVar(&port, "port", 2222, ...))
FlagDefault(flag) ==
    CASE flag = "port"           -> 2222
      [] flag = "log"            -> "credentials.log"
      [] flag = "log-format"     -> "json"
      [] flag = "banner"         -> "Ubuntu-4ubuntu0.5"
      [] flag = "server-version" -> "OpenSSH_8.2p1"
      [] flag = "key"            -> ""
      [] flag = "generate-key"   -> TRUE

\* the viper key, the file key and the Config field a flag stands for
KeyOfSetting(flag) ==
    CASE flag = "port"           -> "PORT"
      [] flag = "log"            -> "LOG_FILE"
      [] flag = "log-format"     -> "LOG_FORMAT"
      [] flag = "banner"         -> "BANNER"
      [] flag = "server-version" -> "SERVER_VERSION"
      [] flag = "key"            -> "PRIVATE_KEY_PATH"
      [] flag = "generate-key"   -> "GENERATE_KEY"

FileKeyOfSetting(flag) ==
    CASE flag = "port"           -> "port"
      [] flag = "log"            -> "log.file"
      [] flag = "log-format"     -> "log.format"
      [] flag = "banner"         -> "banner"
      [] flag = "server-version" -> "server_version"
      [] flag = "key"            -> "private_key_path"
      [] flag = "generate-key"   -> "generate_key"

Field(cfg, flag) ==
    CASE flag = "port"           -> cfg.Port
      [] flag = "log"            -> cfg.Log.File
      [] flag = "log-format"     -> cfg.Log.Format
      [] flag = "banner"         -> cfg.Banner
      [] flag = "server-version" -> cfg.ServerVersion
      [] flag = "key"            -> cfg.PrivateKeyPath
      [] flag = "generate-key"   -> cfg.GenerateKey

\* no flag passed, nothing in the environment, no --config
NoFlags == [flag \in Settings |-> [changed |-> FALSE, value |-> FlagDefault(flag)]]
NoEnviron == [name \in EnvNames |-> [set |-> FALSE, text |-> ""]]
NoFile == [path |-> "", readable |-> FALSE, keys |-> {}]

\* strconv.ParseInt on the texts the environment holds here (cast.ToInt gives
\* 0 for a text that is not a number)
ParseInt(text) ==
    CASE text = "5555" -> 5555
      [] text = "0"    -> 0
      [] OTHER         -> 0

\* strconv.ParseBool (cast.ToBool gives false for any other text)
ParseBool(text) == text \in {"1", "t", "T", "TRUE", "true", "True"}

\* the value a configuration file of this model holds under a key
FileValue(key) ==
    CASE key = "port"             -> 2223
      [] key = "log.file"         -> "test.log"
      [] key = "log.format"       -> "pretty"
      [] key = "banner"           -> "File-Banner"
      [] key = "server_version"   -> "FileSSH_1.0"
      [] key = "private_key_path" -> GarbageKeyPath
      [] key = "generate_key"     -> FALSE

\* viper's lookup of a key in the environment
LookupEnv(env, key) ==
    [ok |-> env[EnvKey(key)].set /\ env[EnvKey(key)].text # "", val |-> env[EnvKey(key)].text]

\* whether the file viper has read holds a key
InFile(file, key) == file.path # "" /\ file.readable /\ LowerKey(key) \in file.keys

\* viper.IsSet
IsSet(env, file, key) == LookupEnv(env, key).ok \/ InFile(file, key)

\* viper.GetString, GetInt, GetBool for a key that is set
GetString(env, file, key) ==
    IF LookupEnv(env, key).ok THEN LookupEnv(env, key).val ELSE FileValue(LowerKey(key))
GetInt(env, file, key) ==
    IF LookupEnv(env, key).ok THEN ParseInt(LookupEnv(env, key).val) ELSE FileValue(LowerKey(key))
GetBool(env, file, key) ==
    IF LookupEnv(env, key).ok THEN ParseBool(LookupEnv(env, key).val) ELSE FileValue(LowerKey(key))

\* viper.Unmarshal(config): the fields whose keys the file holds
Unmarshal(cfg, file) ==
    [ Port           |-> IF "port" \in file.keys THEN FileValue("port") ELSE cfg.Port,
      Log            |-> [ File   |-> IF "log.file" \in file.keys
                                        THEN FileValue("log.file") ELSE cfg.Log.File,
                           Format |-> IF "log.format" \in file.keys
                                        THEN FileValue("log.format") ELSE cfg.Log.Format ],
      Banner         |-> IF "banner" \in file.keys THEN FileValue("banner") ELSE cfg.Banner,
      ServerVersion  |-> IF "server_version" \in file.keys
                           THEN FileValue("server_version") ELSE cfg.ServerVersion,
      PrivateKeyPath |-> IF "private_key_path" \in file.keys
                           THEN FileValue("private_key_path") ELSE cfg.PrivateKeyPath,
      GenerateKey    |-> IF "generate_key" \in file.keys
                           THEN FileValue("generate_key") ELSE cfg.GenerateKey ]

\* LoadConfig's seven `if viper.IsSet(KEY) { config.Field = viper.Get...(KEY) }`
EnvOverrides(cfg, env, file) ==
    [ Port           |-> IF IsSet(env, file, "PORT")
                           THEN GetInt(env, file, "PORT") ELSE cfg.Port,
      Log            |-> [ File   |-> IF IsSet(env, file, "LOG_FILE")
                                        THEN GetString(env, file, "LOG_FILE") ELSE cfg.Log.File,
                           Format |-> IF IsSet(env, file, "LOG_FORMAT")
                                        THEN GetString(env, file, "LOG_FORMAT")
                                        ELSE cfg.Log.Format ],
      Banner         |-> IF IsSet(env, file, "BANNER")
                           THEN GetString(env, file, "BANNER") ELSE cfg.Banner,
      ServerVersion  |-> IF IsSet(env, file, "SERVER_VERSION")
                           THEN GetString(env, file, "SERVER_VERSION") ELSE cfg.ServerVersion,
      PrivateKeyPath |-> IF IsSet(env, file, "PRIVATE_KEY_PATH")
                           THEN GetString(env, file, "PRIVATE_KEY_PATH") ELSE cfg.PrivateKeyPath,
      GenerateKey    |-> IF IsSet(env, file, "GENERATE_KEY")
                           THEN GetBool(env, file, "GENERATE_KEY") ELSE cfg.GenerateKey ]

\* config.LoadConfig(configPath)
LoadConfig(file, env) ==
    IF file.path # "" /\ ~file.readable
      THEN [config |-> Nil, err |-> "error reading configuration file"]
      ELSE LET fromFile == IF file.path # "" THEN Unmarshal(DefaultConfig, file)
                                             ELSE DefaultConfig
           IN [config |-> EnvOverrides(fromFile, env, file), err |-> Nil]

\* a RunE that copies every flag variable into the configuration
ApplyFlags_Unconditional(cfg, fl) ==
    [ Port           |-> fl["port"].value,
      Log            |-> [ File   |-> fl["log"].value,
                           Format |-> fl["log-format"].value ],
      Banner         |-> fl["banner"].value,
      ServerVersion  |-> fl["server-version"].value,
      PrivateKeyPath |-> fl["key"].value,
      GenerateKey    |-> fl["generate-key"].value ]

\* RunE's seven `if cmd.Flags().Changed(flag) { cfg.Field = variable }`
ApplyFlags(cfg, fl) ==
    [ Port           |-> IF fl["port"].changed THEN fl["port"].value ELSE cfg.Port,
      Log            |-> [ File   |-> IF fl["log"].changed THEN fl["log"].value
                                                            ELSE cfg.Log.File,
                           Format |-> IF fl["log-format"].changed THEN fl["log-format"].value
                                                                  ELSE cfg.Log.Format ],
      Banner         |-> IF fl["banner"].changed THEN fl["banner"].value ELSE cfg.Banner,
      ServerVersion  |-> IF fl["server-version"].changed THEN fl["server-version"].value
                                                          ELSE cfg.ServerVersion,
      PrivateKeyPath |-> IF fl["key"].changed THEN fl["key"].value ELSE cfg.PrivateKeyPath,
      GenerateKey    |-> IF fl["generate-key"].changed THEN fl["generate-key"].value
                                                        ELSE cfg.GenerateKey ]

PortNotPositive == "invalid port: must be positive"
PortTooLarge == "invalid port: must be less than 65536"

\* Config.Validate
Validate(cfg) ==
    IF cfg.Port < 0 THEN PortNotPositive
    ELSE IF cfg.Port > 65535 THEN PortTooLarge
    ELSE IF cfg.Log.Format \notin {"json", "pretty", "text"} THEN "invalid log format"
    ELSE IF cfg.PrivateKeyPath # "" /\ ~cfg.GenerateKey
              /\ FileContents(cfg.PrivateKeyPath) = "absent" THEN "private key not found"
    ELSE Nil

\* main is past Validate: the server of this run was built from its result
MainDone ==
    /\ mainPc = "valid"
    /\ flags = NoFlags
    /\ environ = NoEnviron
    /\ cfgFile = NoFile
    /\ validateErr = Nil

(***************************************************************************)
(* passwordCallback, piece by piece.                                       *)
(***************************************************************************)
\* conn.RemoteAddr().String() of connection c: "10.0.0.c:4000c"
RemoteAddr(c) == [ip |-> c, port |-> 40000 + c]

\* string(password): a new string holding the same bytes
GoString(bytes) == [i \in 1..Len(bytes) |-> bytes[i]]

\* a passwordCallback that keeps only the first two bytes of the password
Attempt_Truncated(c, msg) ==
    [ Timestamp  |-> msg.ts,
      RemoteAddr |-> RemoteAddr(c),
      Username   |-> msg.user,
      Password   |-> SubSeq(GoString(msg.password), 1, IF Len(msg.password) < 2 THEN Len(msg.password) ELSE 2) ]

\* the logger.CredentialAttempt literal; msg.ts is what time.Now() returned
Attempt(c, msg) ==
    [ Timestamp  |-> msg.ts,
      RemoteAddr |-> RemoteAddr(c),
      Username   |-> msg.user,
      Password   |-> GoString(msg.password) ]

\* a passwordCallback that sleeps rand.Intn(300) ms, the 200 forgotten
SleepDuration_NoMinimum(r) == r

\* time.Duration(200+rand.Intn(300)) * time.Millisecond, in ms, for the drawn number r
SleepDuration(r) == DelayMin + r

\* a passwordCallback that lets everyone in
passwordCallbackResult_Accepts(attempt, err) ==
    [ perms |-> SomePermissions, err |-> Nil ]

\* a passwordCallback that lets an empty user name in
passwordCallbackResult_AcceptsEmpty(attempt, err) ==
    IF attempt.Username = << >>
      THEN [ perms |-> SomePermissions, err |-> Nil ]
      ELSE [ perms |-> NilPermissions, err |-> PermissionDenied ]

\* a passwordCallback that returns the sink's error instead of logging it
passwordCallbackResult_ReturnsSinkError(attempt, err) ==
    IF err # Nil
      THEN [ perms |-> NilPermissions, err |-> err ]
      ELSE [ perms |-> NilPermissions, err |-> PermissionDenied ]

\* a passwordCallback whose error text tells whether the user is root
passwordCallbackResult_NamesRoot(attempt, err) ==
    IF attempt.Username = Root
      THEN [ perms |-> NilPermissions, err |-> "permission denied for root" ]
      ELSE [ perms |-> NilPermissions, err |-> PermissionDenied ]

\* return nil, fmt.Errorf("permission denied (password), please try again")
passwordCallbackResult(attempt, err) ==
    [ perms |-> NilPermissions, err |-> PermissionDenied ]

(***************************************************************************)
(* CredentialsLogger.Log.                                                  *)
(***************************************************************************)
\* the event both branches of Log build
Record(attempt) ==
    [ level       |-> "info",
      component   |-> "auth",
      event       |-> "auth_attempt",
      remote_addr |-> attempt.RemoteAddr,
      username    |-> attempt.Username,
      password    |-> attempt.Password,
      message     |-> "authentication attempt" ]

\* zerolog's Timestamp hook (With().Timestamp()): the event gets a "time"
\* field holding time.Now() at the moment the event is written, formatted with
\* zerolog.TimeFieldFormat = time.RFC3339, that is to the second
TimestampHook(event, t) == event @@ [time |-> t]

\* the writer main gives zerolog's global logger: os.Stderr in both branches
GlobalLoggerWriter == "stderr"

\* a logger that takes "text" for a console format too
Encoding_TextIsConsole(format) == IF format \in {"pretty", "text"} THEN "console" ELSE "json"

\* how a zerolog logger set up for a format encodes its events: through a
\* ConsoleWriter for "pretty", as JSON for everything else
Encoding(format) == IF format = "pretty" THEN "console" ELSE "json"

\* the stream Log's event ends up in: the global logger's writer when the
\* output is os.Stdout, the opened file otherwise
LogStream(out) == IF out = "stdout" THEN GlobalLoggerWriter ELSE "file"

\* the encoding of Log's event: the global logger was set up from the flag
\* variable logFormat before the configuration was loaded, the local logger
\* from the resolved configuration
LogEncoding(out, cfg, fl) ==
    IF out = "stdout" THEN Encoding(fl["log-format"].value) ELSE Encoding(cfg.Log.Format)

\* an event as it is found on a stream
Written(event, stream, encoding) == event @@ [stream |-> stream, encoding |-> encoding]

\* a logger that opens its file with O_TRUNC
OpenFile_Truncates(stream) == << >>

\* os.OpenFile(config.LogFile, os.O_APPEND|os.O_CREATE|os.O_WRONLY, 0644): what
\* the file held stays
OpenFile(stream) == stream

\* NewCredentialsLogger; ok is whether os.OpenFile succeeds
NewCredentialsLogger(cfg, ok) ==
    IF cfg.Log.File = "stdout" THEN [output |-> "stdout", err |-> Nil]
    ELSE IF ok THEN [output |-> "file", err |-> Nil]
    ELSE [output |-> "none", err |-> "failed to open log file"]

\* a writer that buffers events and never flushes them
WriteEvent_Unflushed(stream, event) == stream

\* a file opened without O_APPEND and written from offset 0
WriteEvent_Overwrites(stream, event) == << event >>

\* a writer that puts the newest event first
WriteEvent_Prepends(stream, event) == << event >> \o stream

\* one event written to a stream: the file is opened O_APPEND, one Write per event
WriteEvent(stream, event) == Append(stream, event)

\* Log's return value
LogResult == Nil

\* the states Log can find its output in: open, closed by Close, or open with
\* a Write that fails (disk full, broken pipe)
SinkStates == {"open", "closed", "failing"}

\* whether the event of a Log call ends up on the stream: a Write on a closed
\* file or a failing Write stores nothing, and zerolog's Msg drops the event
Stored(sink) == sink = "open"

\* a Log that returns the error of the Write
LogReturn_ReportsWriteError(sink) == IF Stored(sink) THEN Nil ELSE SinkWriteError

\* what Log returns when its output is in the state sink: Msg returns nothing,
\* and Log ends with `return nil`
LogReturn(sink) == LogResult

\* log.Error().Err(err).Msg("logging error")
ErrorEvent(err) ==
    [ level |-> "error", error |-> err, message |-> "logging error" ]

(***************************************************************************)
(* Server.Start.                                                           *)
(***************************************************************************)
\* s.handleConnection(conn) called without `go`: the loop is inside the handler
AfterDispatch_Synchronous == "handling"

\* where the accept loop is after `go s.handleConnection(conn)`
AfterDispatch == "accept"

\* a loop that gives up at the first error Accept returns
AfterAcceptError_Returns == "returned"

\* where the accept loop is after Accept returned an error: `continue`
AfterAcceptError == "accept"

\* a Start that forgets the fingerprint
StartupLines_NoFingerprint == << "Fake SSH server started on port", "Server version" >>

\* the three fmt.Printf calls between net.Listen and the loop
StartupLines == << "Fake SSH server started on port", "Server version", "Server fingerprint" >>

\* the fields of a Server that was never built
NoServer == [config |-> Nil, sshConfig |-> Nil, privateKey |-> NoKey]

\* one call of NewServer as the history keeps it
Construction(cfg, r) ==
    [cfg |-> cfg, server |-> r.server, err |-> r.err, calls |-> r.calls]

\* the keys drawn from crypto/rand.Reader after a call of NewServer
EntropyAfter(drawn, r) ==
    IF r.calls = << "generatePrivateKey" >> THEN drawn + 1 ELSE drawn

\* nothing was accepted, received or written yet
\* nothing accepted, nothing logged; file is what the log file holds
InitIdleWith(file) ==
    /\ listener = "none"
    /\ accepted = 0
    /\ acceptErrors = 0
    /\ operatorOut = << >>
    /\ credFile = file
    /\ globalLog = << >>
    /\ now = 0
    /\ pc = [c \in Conns |-> "none"]
    /\ transport = [c \in Conns |-> "none"]
    /\ sshConn = [c \in Conns |-> "none"]
    /\ chanReplies = [c \in Conns |-> << >>]
    /\ reqReplies = [c \in Conns |-> << >>]
    /\ hostKey = [c \in Conns |-> NoKey]
    /\ banner = [c \in Conns |-> << >>]
    /\ cur = [c \in Conns |-> NoMsg]
    /\ logErr = [c \in Conns |-> Nil]
    /\ delay = [c \in Conns |-> 0]
    /\ authFailures = [c \in Conns |-> 0]
    /\ received = [c \in Conns |-> << >>]
    /\ others = [c \in Conns |-> 0]
    /\ logCalls = << >>
    /\ replies = [c \in Conns |-> << >>]

InitIdle == InitIdleWith(<< >>)

\* main after NewCredentialsLogger and a successful NewServer, for a
\* configuration out of cfgs: Start is about to be called
InitOf(cfgs) ==
    /\ \E cfg \in cfgs :
          LET r == NewServer(cfg, 0, TRUE)
          IN /\ r.err = Nil
             /\ config = r.server[1].config
             /\ sshConfig = r.server[1].sshConfig
             /\ privateKey = r.server[1].privateKey
             /\ entropy = EntropyAfter(0, r)
             /\ constructed = << Construction(cfg, r) >>
             /\ output = LoggerOutput(cfg.Log.File)
    /\ startPc = "listen"
    /\ MainDone
    /\ InitIdle

Init == InitOf({ [DefaultConfig EXCEPT !.Log.File = f] : f \in LogFiles })

connVars == << pc, transport, sshConn, chanReplies, reqReplies,
              hostKey, banner, cur, logErr, delay, authFailures, received, others, replies >>
sinkVars == << credFile, globalLog, logCalls >>
startVars == << startPc, listener, accepted, acceptErrors, operatorOut >>
loopVars == << startPc, listener, accepted, acceptErrors >>
\* the server, its logger and the clock they read
mainVars == << mainPc, flags, environ, cfgFile, validateErr >>
serverVars == << config, sshConfig, privateKey, entropy, constructed, output, now, mainVars >>

\* net.Listen succeeds: the three lines are printed and the loop is entered
StartListen ==
    /\ startPc = "listen"
    /\ startPc' = "accept"
    /\ listener' = "open"
    /\ operatorOut' = operatorOut \o StartupLines
    /\ UNCHANGED << accepted, acceptErrors >>
    /\ UNCHANGED serverVars
    /\ UNCHANGED connVars
    /\ UNCHANGED sinkVars

\* net.Listen fails: Start returns the error
StartListenFails ==
    /\ startPc = "listen"
    /\ startPc' = "returned"
    /\ UNCHANGED << listener, accepted, acceptErrors, operatorOut >>
    /\ UNCHANGED serverVars
    /\ UNCHANGED connVars
    /\ UNCHANGED sinkVars

\* listener.Accept returns an error on a working endpoint: it is printed and
\* the loop continues
AcceptFails ==
    /\ startPc = "accept"
    /\ listener = "open"
    /\ accepted + acceptErrors < MaxConns
    /\ acceptErrors' = acceptErrors + 1
    /\ operatorOut' = Append(operatorOut, "Connection acceptance error")
    /\ startPc' = AfterAcceptError
    /\ UNCHANGED << listener, accepted >>
    /\ UNCHANGED serverVars
    /\ UNCHANGED connVars
    /\ UNCHANGED sinkVars

\* listener.Accept returns a connection: its handler is started as a goroutine
Accept ==
    /\ startPc = "accept"
    /\ listener = "open"
    /\ accepted + acceptErrors < MaxConns
    /\ accepted' = accepted + 1
    /\ pc' = [pc EXCEPT ![accepted + 1] = "handshake"]
    /\ transport' = [transport EXCEPT ![accepted + 1] = "open"]
    /\ hostKey' = [hostKey EXCEPT ![accepted + 1] = HandshakeKey(sshConfig, accepted + 1)]
    /\ startPc' = AfterDispatch
    /\ UNCHANGED << listener, acceptErrors, operatorOut >>
    /\ UNCHANGED serverVars
    /\ UNCHANGED << sshConn, chanReplies, reqReplies >>
    /\ UNCHANGED << banner, cur, logErr, delay, authFailures, received, others, replies >>
    /\ UNCHANGED sinkVars

(***************************************************************************)
(* Server.handleConnection: ssh.NewServerConn and the callbacks it makes.  *)
(***************************************************************************)
\* a handleConnection that forgets `defer conn.Close()`
DeferredConnClose_Missing == "open"

\* defer conn.Close(): the net.Conn once handleConnection has returned
DeferredConnClose == "closed"

\* defer sshConn.Close(): the ServerConn once handleConnection has returned
DeferredSSHConnClose == "closed"

\* a handleConnection that reports the error NewServerConn returned
HandshakeErrorLines_Reported == << "SSH handshake error" >>

\* what handleConnection prints when NewServerConn returns an error: nothing
HandshakeErrorLines == << >>

\* what a step that takes c's handler to newPc does to the connection objects
\* and to the operator output: NewServerConn returning without an error makes
\* the ServerConn, NewServerConn returning an error prints HandshakeErrorLines,
\* and the handler returning runs the deferred calls
Lifecycle(c, newPc) ==
    /\ transport' = [transport EXCEPT ![c] =
                        IF newPc = "closed" THEN DeferredConnClose ELSE @]
    /\ sshConn' = [sshConn EXCEPT ![c] =
                      IF newPc = "established" THEN "open"
                      ELSE IF newPc = "closed" /\ @ = "open" THEN DeferredSSHConnClose
                      ELSE @]
    /\ operatorOut' = IF newPc = "closed" /\ pc[c] # "established"
                        THEN operatorOut \o HandshakeErrorLines
                        ELSE operatorOut

MsgCount(c) == Len(received[c]) + others[c]

\* channel opens and global requests received on c
EstablishedMsgCount(c) == Len(chanReplies[c]) + Len(reqReplies[c])

RECURSIVE SumMsgs(_)
SumMsgs(n) == IF n = 0 THEN 0 ELSE MsgCount(n) + EstablishedMsgCount(n) + SumMsgs(n - 1)

\* the library's bookkeeping after a failed request: disconnect at MaxAuthTries
AfterFailure(c, failures) ==
    IF failures >= EffectiveMaxAuthTries(sshConfig) THEN "closed" ELSE "handshake"

\* the banners sent on c once a request naming `user` has arrived: the library
\* calls BannerCallback on the first request of a connection, whatever its method
BannerSent(c, user) ==
    IF MsgCount(c) = 0 /\ sshConfig.BannerCallback # Nil
      THEN Append(banner[c], bannerCallback(config, [user |-> user, addr |-> RemoteAddr(c)]))
      ELSE banner[c]

\* the library serving a "password" request: it calls PasswordCallback
ServePasswordRequest(c, msg) ==
    /\ pc[c] = "handshake"
    /\ received' = [received EXCEPT ![c] = Append(@, msg)]
    /\ IF CallbackFor(sshConfig, "password") # Nil
         THEN /\ pc' = [pc EXCEPT ![c] = "callback"]
              /\ cur' = [cur EXCEPT ![c] = [user |-> msg.user, password |-> msg.password,
                                            ts |-> now, none |-> FALSE]]
              /\ UNCHANGED authFailures
         ELSE /\ authFailures' = [authFailures EXCEPT ![c] = @ + 1]
              /\ pc' = [pc EXCEPT ![c] = AfterFailure(c, authFailures[c] + 1)]
              /\ UNCHANGED cur
    /\ banner' = [banner EXCEPT ![c] = BannerSent(c, msg.user)]
    /\ Lifecycle(c, pc'[c])
    /\ UNCHANGED << chanReplies, reqReplies, hostKey, logErr, delay, others, replies >>
    /\ UNCHANGED loopVars
    /\ UNCHANGED sinkVars
    /\ UNCHANGED serverVars

\* a "password" request arrives
PasswordRequest(c, msg) ==
    /\ SumMsgs(MaxConns) < MaxMsgs
    /\ ServePasswordRequest(c, msg)

\* the client that does not give up: its requests are bounded by the library's
\* MaxAuthTries alone
PersistentClient == 1

\* a "password" request of the persistent client arrives
PasswordRetry(msg) == ServePasswordRequest(PersistentClient, msg)

\* a request of another method arrives, for the user root: no authentication
\* callback of this server is called
OtherRequest(c, method) ==
    /\ pc[c] = "handshake"
    /\ SumMsgs(MaxConns) < MaxMsgs
    /\ others' = [others EXCEPT ![c] = @ + 1]
    /\ IF (method = "none" /\ sshConfig.NoClientAuth) \/ CallbackFor(sshConfig, method) # Nil
         THEN /\ pc' = [pc EXCEPT ![c] = "established"]
              /\ UNCHANGED authFailures
         ELSE LET failures == IF method = "none" /\ authFailures[c] = 0
                                THEN 0 ELSE authFailures[c] + 1
              IN /\ authFailures' = [authFailures EXCEPT ![c] = failures]
                 /\ pc' = [pc EXCEPT ![c] = AfterFailure(c, failures)]
    /\ banner' = [banner EXCEPT ![c] = BannerSent(c, Root)]
    /\ Lifecycle(c, pc'[c])
    /\ UNCHANGED << chanReplies, reqReplies, hostKey, cur, logErr, delay, received, replies >>
    /\ UNCHANGED loopVars
    /\ UNCHANGED sinkVars
    /\ UNCHANGED serverVars

\* NewServerConn returns an error (the client went away): the handler returns
\* and its deferred conn.Close runs
HandshakeError(c) ==
    /\ pc[c] = "handshake"
    /\ pc' = [pc EXCEPT ![c] = "closed"]
    /\ Lifecycle(c, "closed")
    /\ UNCHANGED << chanReplies, reqReplies >>
    /\ UNCHANGED << hostKey, banner, cur, logErr, delay, authFailures, received, others, replies >>
    /\ UNCHANGED loopVars
    /\ UNCHANGED sinkVars
    /\ UNCHANGED serverVars

\* passwordCallback up to and including `if err := s.logger.Log(attempt); err != nil {...}`,
\* for a Log that returns err and writes the record iff `written`
PasswordCallbackLog(c, err, written) ==
    /\ pc[c] = "callback"
    /\ LET attempt == Attempt(c, cur[c])
           event   == Written(TimestampHook(Record(attempt), now),
                              LogStream(output), LogEncoding(output, config, flags))
           toFile  == IF written /\ output # "stdout"
                        THEN WriteEvent(credFile, event) ELSE credFile
           toLog   == IF written /\ output = "stdout"
                        THEN WriteEvent(globalLog, event) ELSE globalLog
       IN /\ logCalls' = Append(logCalls, attempt)
          /\ credFile' = toFile
          /\ globalLog' = IF err # Nil THEN WriteEvent(toLog, ErrorEvent(err)) ELSE toLog
    /\ logErr' = [logErr EXCEPT ![c] = err]
    /\ pc' = [pc EXCEPT ![c] = "logged"]
    /\ UNCHANGED << transport, sshConn, chanReplies, reqReplies >>
    /\ UNCHANGED << hostKey, banner, cur, delay, authFailures, received, others, replies >>
    /\ UNCHANGED startVars
    /\ UNCHANGED serverVars

\* time.Sleep is entered with the duration drawn
PasswordCallbackSleep(c) ==
    /\ pc[c] = "logged"
    /\ \E r \in RandIntn(DelayJitter) :
          delay' = [delay EXCEPT ![c] = SleepDuration(r)]
    /\ pc' = [pc EXCEPT ![c] = "sleep"]
    /\ UNCHANGED << transport, sshConn, chanReplies, reqReplies >>
    /\ UNCHANGED << hostKey, banner, cur, logErr, authFailures, received, others, replies >>
    /\ UNCHANGED startVars
    /\ UNCHANGED sinkVars
    /\ UNCHANGED serverVars

\* the sleep is over and passwordCallback returns; the library acts on the result
PasswordCallbackReturn(c) ==
    /\ pc[c] = "sleep"
    /\ LET result == passwordCallbackResult(Attempt(c, cur[c]), logErr[c])
       IN /\ replies' = [replies EXCEPT ![c] =
                            Append(@, [perms |-> result.perms, err |-> result.err,
                                       logErr |-> logErr[c]])]
          /\ IF result.err = Nil
               THEN /\ pc' = [pc EXCEPT ![c] = "established"]
                    /\ UNCHANGED authFailures
               ELSE /\ authFailures' = [authFailures EXCEPT ![c] = @ + 1]
                    /\ pc' = [pc EXCEPT ![c] = AfterFailure(c, authFailures[c] + 1)]
    /\ cur' = [cur EXCEPT ![c] = NoMsg]
    /\ logErr' = [logErr EXCEPT ![c] = Nil]
    /\ delay' = [delay EXCEPT ![c] = 0]
    /\ Lifecycle(c, pc'[c])
    /\ UNCHANGED << chanReplies, reqReplies, hostKey, banner, received, others >>
    /\ UNCHANGED loopVars
    /\ UNCHANGED sinkVars
    /\ UNCHANGED serverVars

(***************************************************************************)
(* Server.handleConnection after NewServerConn has returned without an     *)
(* error: the goroutine running ssh.DiscardRequests on the global requests *)
(* and the loop over the channel opens.  With the ServerConfig NewServer   *)
(* builds the library never gets there; the steps are the handler's code   *)
(* for a connection that did.                                              *)
(***************************************************************************)
ChannelTypes == {"session", "direct-tcpip"}
RequestNames == {"tcpip-forward"}

\* a channel loop that lets sessions in
RejectChannel_AcceptsSession(type) ==
    [ type |-> type, accepted |-> type = "session",
      reason |-> "prohibited", message |-> "connection rejected" ]

\* newChannel.Reject(ssh.Prohibited, "connection rejected")
RejectChannel(type) ==
    [ type |-> type, accepted |-> FALSE,
      reason |-> "prohibited", message |-> "connection rejected" ]

\* a request goroutine that grants what it is asked
DiscardRequestsReply_Grants(wantReply) == IF wantReply THEN "success" ELSE "none"

\* ssh.DiscardRequests: `if req.WantReply { req.Reply(false, nil) }`
DiscardRequestsReply(wantReply) == IF wantReply THEN "failure" ELSE "none"

\* ssh.NewServerConn returns a connection and no error
HandshakeSucceeds(c) ==
    /\ pc[c] = "handshake"
    /\ pc' = [pc EXCEPT ![c] = "established"]
    /\ Lifecycle(c, "established")
    /\ UNCHANGED << chanReplies, reqReplies >>
    /\ UNCHANGED << hostKey, banner, cur, logErr, delay, authFailures, received, others, replies >>
    /\ UNCHANGED loopVars
    /\ UNCHANGED sinkVars
    /\ UNCHANGED serverVars

\* one iteration of `for newChannel := range chans`
ChannelOpen(c, type) ==
    /\ pc[c] = "established"
    /\ SumMsgs(MaxConns) < MaxMsgs
    /\ chanReplies' = [chanReplies EXCEPT ![c] = Append(@, RejectChannel(type))]
    /\ UNCHANGED << pc, transport, sshConn, reqReplies >>
    /\ UNCHANGED << hostKey, banner, cur, logErr, delay, authFailures, received, others, replies >>
    /\ UNCHANGED startVars
    /\ UNCHANGED sinkVars
    /\ UNCHANGED serverVars

\* one iteration of the loop of ssh.DiscardRequests, in its own goroutine
GlobalRequest(c, name, wantReply) ==
    /\ pc[c] = "established"
    /\ SumMsgs(MaxConns) < MaxMsgs
    /\ reqReplies' = [reqReplies EXCEPT ![c] =
                         Append(@, [ name |-> name, wantReply |-> wantReply,
                                     reply |-> DiscardRequestsReply(wantReply) ])]
    /\ UNCHANGED << pc, transport, sshConn, chanReplies >>
    /\ UNCHANGED << hostKey, banner, cur, logErr, delay, authFailures, received, others, replies >>
    /\ UNCHANGED startVars
    /\ UNCHANGED sinkVars
    /\ UNCHANGED serverVars

\* `chans` is closed (the client went away): the loop ends, the handler returns
ChannelsEnd(c) ==
    /\ pc[c] = "established"
    /\ pc' = [pc EXCEPT ![c] = "closed"]
    /\ Lifecycle(c, "closed")
    /\ UNCHANGED << chanReplies, reqReplies >>
    /\ UNCHANGED << hostKey, banner, cur, logErr, delay, authFailures, received, others, replies >>
    /\ UNCHANGED loopVars
    /\ UNCHANGED sinkVars
    /\ UNCHANGED serverVars

Next ==
    \/ StartListen
    \/ StartListenFails
    \/ AcceptFails
    \/ Accept
    \/ \E c \in Conns, msg \in Submissions : PasswordRequest(c, msg)
    \/ \E c \in Conns, method \in OtherMethods : OtherRequest(c, method)
    \/ \E c \in Conns : HandshakeError(c)
    \/ \E c \in Conns : PasswordCallbackLog(c, LogResult, TRUE)
    \/ \E c \in Conns : PasswordCallbackSleep(c)
    \/ \E c \in Conns : PasswordCallbackReturn(c)

Spec == Init /\ [][Next]_vars

(***************************************************************************)
(* The same server with a sink whose Log may fail: passwordCallback is     *)
(* checked against every value the `error` Log returns can hold.  What is  *)
(* varied here is the sink's answer, so every client submits root/hunter2. *)
(***************************************************************************)
NextSinkErr ==
    \/ StartListen
    \/ StartListenFails
    \/ AcceptFails
    \/ Accept
    \/ \E c \in Conns : PasswordRequest(c, RootSubmission)
    \/ \E c \in Conns, method \in OtherMethods : OtherRequest(c, method)
    \/ \E c \in Conns : HandshakeError(c)
    \/ \E c \in Conns : PasswordCallbackLog(c, Nil, TRUE)
    \/ \E c \in Conns : PasswordCallbackLog(c, SinkWriteError, FALSE)
    \/ \E c \in Conns : PasswordCallbackSleep(c)
    \/ \E c \in Conns : PasswordCallbackReturn(c)

SpecSinkErr == Init /\ [][NextSinkErr]_vars

(***************************************************************************)
(* The same server with connections that get past the handshake, and a     *)
(* sink whose Log may fail: every way a handler can end is there, the      *)
(* handshake failing, the client going away, the channel stream ending.    *)
(***************************************************************************)
NextEstablished ==
    \/ StartListen
    \/ StartListenFails
    \/ AcceptFails
    \/ Accept
    \/ \E c \in Conns : PasswordRequest(c, RootSubmission)
    \/ \E c \in Conns : HandshakeError(c)
    \/ \E c \in Conns : PasswordCallbackLog(c, Nil, TRUE)
    \/ \E c \in Conns : PasswordCallbackLog(c, SinkWriteError, FALSE)
    \/ \E c \in Conns : PasswordCallbackSleep(c)
    \/ \E c \in Conns : PasswordCallbackReturn(c)
    \/ \E c \in Conns : HandshakeSucceeds(c)
    \/ \E c \in Conns, type \in ChannelTypes : ChannelOpen(c, type)
    \/ \E c \in Conns, name \in RequestNames, wantReply \in BOOLEAN :
           GlobalRequest(c, name, wantReply)
    \/ \E c \in Conns : ChannelsEnd(c)

\* the server main starts when it is given nothing: DefaultConfig
InitDefault == InitOf({DefaultConfig})

SpecEstablished == InitDefault /\ [][NextEstablished]_vars

(***************************************************************************)
(* The same server with one client that retries until the library          *)
(* disconnects it, next to clients that give up or abort.                  *)
(***************************************************************************)
NextExhaust ==
    \/ StartListen
    \/ StartListenFails
    \/ AcceptFails
    \/ Accept
    \/ PasswordRetry(RootSubmission)
    \/ \E c \in Conns \ {PersistentClient} : PasswordRequest(c, RootSubmission)
    \/ \E c \in Conns : HandshakeError(c)
    \/ \E c \in Conns : PasswordCallbackLog(c, LogResult, TRUE)
    \/ \E c \in Conns : PasswordCallbackSleep(c)
    \/ \E c \in Conns : PasswordCallbackReturn(c)

SpecExhaust == InitDefault /\ [][NextExhaust]_vars

(***************************************************************************)
(* The same server with a clock that advances: a second can pass between   *)
(* any two steps, also between passwordCallback taking time.Now() and the  *)
(* sink writing the event.                                                 *)
(***************************************************************************)
Tick ==
    /\ now < MaxTime
    /\ now' = now + 1
    /\ UNCHANGED << config, sshConfig, privateKey, entropy, constructed, output, mainVars >>
    /\ UNCHANGED startVars
    /\ UNCHANGED connVars
    /\ UNCHANGED sinkVars

NextClock ==
    \/ StartListen
    \/ StartListenFails
    \/ AcceptFails
    \/ Accept
    \/ \E c \in Conns : PasswordRequest(c, RootSubmission)
    \/ \E c \in Conns : HandshakeError(c)
    \/ \E c \in Conns : PasswordCallbackLog(c, LogResult, TRUE)
    \/ \E c \in Conns : PasswordCallbackSleep(c)
    \/ \E c \in Conns : PasswordCallbackReturn(c)
    \/ Tick

SpecClock == Init /\ [][NextClock]_vars

(***************************************************************************)
(* The same server on a listening endpoint that can be lost after the      *)
(* bind: once it is closed, or fails for good, every Accept returns an     *)
(* error.  An iteration on the lost endpoint is two steps, Accept          *)
(* returning the error and the error being printed before `continue`; the  *)
(* errors are counted, and their lines kept, up to the bound on Accept     *)
(* returns.  Start keeps executing its loop: a step of it that can be      *)
(* taken eventually is.                                                    *)
(***************************************************************************)
ListenerCloses ==
    /\ startPc = "accept"
    /\ listener = "open"
    /\ listener' = "closed"
    /\ UNCHANGED << startPc, accepted, acceptErrors, operatorOut >>
    /\ UNCHANGED serverVars
    /\ UNCHANGED connVars
    /\ UNCHANGED sinkVars

\* listener.Accept returns an error on the lost endpoint
AcceptFailsLost ==
    /\ startPc = "accept"
    /\ listener = "closed"
    /\ startPc' = "acceptError"
    /\ UNCHANGED << listener, accepted, acceptErrors, operatorOut >>
    /\ UNCHANGED serverVars
    /\ UNCHANGED connVars
    /\ UNCHANGED sinkVars

\* fmt.Printf("Connection acceptance error: ...") and `continue`
ReportLost ==
    /\ startPc = "acceptError"
    /\ startPc' = AfterAcceptError
    /\ IF accepted + acceptErrors < MaxConns
         THEN /\ acceptErrors' = acceptErrors + 1
              /\ operatorOut' = Append(operatorOut, "Connection acceptance error")
         ELSE UNCHANGED << acceptErrors, operatorOut >>
    /\ UNCHANGED << listener, accepted >>
    /\ UNCHANGED serverVars
    /\ UNCHANGED connVars
    /\ UNCHANGED sinkVars

NextListenerGone ==
    \/ Next
    \/ ListenerCloses
    \/ AcceptFailsLost
    \/ ReportLost

SpecListenerGone ==
    Init /\ [][NextListenerGone]_vars /\ WF_vars(AcceptFailsLost) /\ WF_vars(ReportLost)

(***************************************************************************)
(* The same server with a first connection that may stall anywhere and for *)
(* ever, while the goroutines of the other connections keep running: a     *)
(* passwordCallback of theirs that can take its next step eventually does. *)
(* What is varied here is the scheduling, so every client submits          *)
(* root/hunter2.                                                           *)
(***************************************************************************)
NextStall ==
    \/ StartListen
    \/ StartListenFails
    \/ AcceptFails
    \/ Accept
    \/ \E c \in Conns : PasswordRequest(c, RootSubmission)
    \/ \E c \in Conns, method \in OtherMethods : OtherRequest(c, method)
    \/ \E c \in Conns : HandshakeError(c)
    \/ \E c \in Conns : PasswordCallbackLog(c, LogResult, TRUE)
    \/ \E c \in Conns : PasswordCallbackSleep(c)
    \/ \E c \in Conns : PasswordCallbackReturn(c)

SpecStall ==
    /\ Init /\ [][NextStall]_vars
    /\ \A d \in Conns \ {1} :
          /\ WF_vars(PasswordCallbackLog(d, LogResult, TRUE))
          /\ WF_vars(PasswordCallbackSleep(d))
          /\ WF_vars(PasswordCallbackReturn(d))

(***************************************************************************)
(* The server with the logger's output in any state at each call of Log:   *)
(* open, closed, or failing to write.  What Log returns and whether the    *)
(* record is stored follow from that state.                                *)
(***************************************************************************)
NextSinkStates ==
    \/ StartListen
    \/ StartListenFails
    \/ AcceptFails
    \/ Accept
    \/ \E c \in Conns : PasswordRequest(c, RootSubmission)
    \/ \E c \in Conns : HandshakeError(c)
    \/ \E c \in Conns, sink \in SinkStates :
          PasswordCallbackLog(c, LogReturn(sink), Stored(sink))
    \/ \E c \in Conns : PasswordCallbackSleep(c)
    \/ \E c \in Conns : PasswordCallbackReturn(c)

SpecSinkStates == Init /\ [][NextSinkStates]_vars

(***************************************************************************)
(* The server with every handler goroutine kept running: a passwordCallback*)
(* that can take its next step (the call of Log, entering time.Sleep,      *)
(* waking up and returning) eventually takes it.  Clients are not under    *)
(* the server's control: no fairness is assumed for what they send.  What  *)
(* is varied here is the scheduling, so every client submits root/hunter2. *)
(***************************************************************************)
NextFair ==
    \/ StartListen
    \/ StartListenFails
    \/ AcceptFails
    \/ Accept
    \/ \E c \in Conns : PasswordRequest(c, RootSubmission)
    \/ \E c \in Conns, method \in OtherMethods : OtherRequest(c, method)
    \/ \E c \in Conns : HandshakeError(c)
    \/ \E c \in Conns : PasswordCallbackLog(c, LogResult, TRUE)
    \/ \E c \in Conns : PasswordCallbackSleep(c)
    \/ \E c \in Conns : PasswordCallbackReturn(c)

SpecFair ==
    /\ InitDefault /\ [][NextFair]_vars
    /\ \A c \in Conns :
          /\ WF_vars(PasswordCallbackLog(c, LogResult, TRUE))
          /\ WF_vars(PasswordCallbackSleep(c))
          /\ WF_vars(PasswordCallbackReturn(c))

(***************************************************************************)
(* NewServer called on its own, as main and the tests call it: with every  *)
(* way of choosing the key under the default identification, and with      *)
(* every identification under the embedded key.  A server that was built   *)
(* can be started; a failed call leaves nothing to start.                  *)
(***************************************************************************)
ConstructionConfigs ==
    { [DefaultConfig EXCEPT !.GenerateKey = g, !.PrivateKeyPath = path] :
         g \in BOOLEAN, path \in KeyPaths }
    \cup
    { [DefaultConfig EXCEPT !.GenerateKey = FALSE, !.ServerVersion = v, !.Banner = b] :
         v \in ServerVersions, b \in Banners }

InitNewServer ==
    /\ startPc = "new"
    /\ config = NoServer.config
    /\ sshConfig = NoServer.sshConfig
    /\ privateKey = NoServer.privateKey
    /\ entropy = 0
    /\ constructed = << >>
    /\ output = LoggerOutput(DefaultConfig.Log.File)
    /\ MainDone
    /\ InitIdle

\* server, err := sshserver.NewServer(cfg, credLogger); ok is whether
\* rsa.GenerateKey would succeed
NewServerCall(cfg, ok) ==
    /\ startPc \in {"new", "listen"}
    /\ Len(constructed) < MaxConstructions
    /\ LET r == NewServer(cfg, entropy, ok)
           s == IF r.server = NilServer THEN NoServer ELSE r.server[1]
       IN /\ config' = s.config
          /\ sshConfig' = s.sshConfig
          /\ privateKey' = s.privateKey
          /\ entropy' = EntropyAfter(entropy, r)
          /\ constructed' = Append(constructed, Construction(cfg, r))
          /\ startPc' = IF r.err = Nil THEN "listen" ELSE "new"
    /\ UNCHANGED << listener, accepted, acceptErrors, operatorOut, output, now, mainVars >>
    /\ UNCHANGED connVars
    /\ UNCHANGED sinkVars

NextNewServer ==
    \/ \E cfg \in ConstructionConfigs, ok \in BOOLEAN : NewServerCall(cfg, ok)
    \/ StartListen
    \/ StartListenFails

SpecNewServer == InitNewServer /\ [][NextNewServer]_vars

(***************************************************************************)
(* main from its start to the server it builds, for the command lines,     *)
(* environments and configuration files of the model: of each, none, one   *)
(* or all of the settings are given; a variable of the environment is      *)
(* given with a value or with the empty string; --port is given with       *)
(* values on both sides of the limits Validate checks.                     *)
(***************************************************************************)
PresenceSets(S) == {{}} \cup {{x} : x \in S} \cup {S}

PortValues == {-1, 0, 1, 2222, 3333, 65535, 65536}

\* what --key is passed with
KeyFlagValues == {ValidKeyPath, UnreadableKeyPath}

\* what a flag is passed with (--port apart)
PassedValue(flag) ==
    CASE flag = "log"            -> "stdout"
      [] flag = "log-format"     -> "xml"
      [] flag = "banner"         -> "Flag-Banner"
      [] flag = "server-version" -> "FlagSSH_3.0"
      [] flag = "key"            -> ValidKeyPath
      [] flag = "generate-key"   -> FALSE

\* what a variable of the environment holds when it holds something
EnvText(name) ==
    CASE name = "FAKESSH_PORT"             -> "5555"
      [] name = "FAKESSH_LOG_FILE"         -> "env.log"
      [] name = "FAKESSH_LOG_FORMAT"       -> "text"
      [] name = "FAKESSH_BANNER"           -> "Env-Banner"
      [] name = "FAKESSH_SERVER_VERSION"   -> "EnvSSH_1.0"
      [] name = "FAKESSH_PRIVATE_KEY_PATH" -> MissingKeyPath
      [] name = "FAKESSH_GENERATE_KEY"     -> "true"
      [] name = "FAKESSH_KEY"              -> ValidKeyPath

CommandLines ==
    { [flag \in Settings |->
          IF flag \in passed
            THEN [changed |-> TRUE,
                  value |-> IF flag = "port" THEN p
                            ELSE IF flag = "key" THEN k ELSE PassedValue(flag)]
            ELSE [changed |-> FALSE, value |-> FlagDefault(flag)]]
      : passed \in PresenceSets(Settings), p \in PortValues, k \in KeyFlagValues }

Environments ==
    { [name \in EnvNames |->
          IF name \in given \cup readme
            THEN [set |-> TRUE, text |-> IF empty THEN "" ELSE EnvText(name)]
            ELSE [set |-> FALSE, text |-> ""]]
      : given \in PresenceSets(EnvNames \ {ReadmeKeyVariable}),
        readme \in SUBSET {ReadmeKeyVariable},
        empty \in BOOLEAN }

ConfigFiles ==
    {NoFile, [path |-> "missing.yaml", readable |-> FALSE, keys |-> {}]}
      \cup {[path |-> "config.yaml", readable |-> TRUE, keys |-> keys]
               : keys \in PresenceSets(FileKeys)}

InitMain ==
    /\ startPc = "new"
    /\ config = NoServer.config
    /\ sshConfig = NoServer.sshConfig
    /\ privateKey = NoServer.privateKey
    /\ entropy = 0
    /\ constructed = << >>
    /\ output = "none"
    /\ mainPc = "load"
    /\ flags \in CommandLines
    /\ environ \in Environments
    /\ cfgFile \in ConfigFiles
    /\ validateErr = Nil
    /\ InitIdle

\* cfg, err := config.LoadConfig(cfgFile)
MainLoadConfig ==
    /\ mainPc = "load"
    /\ LET r == LoadConfig(cfgFile, environ)
       IN /\ config' = r.config
          /\ mainPc' = IF r.err = Nil THEN "flags" ELSE "failed"
    /\ UNCHANGED << sshConfig, privateKey, entropy, constructed, output, now >>
    /\ UNCHANGED << flags, environ, cfgFile, validateErr >>
    /\ UNCHANGED startVars
    /\ UNCHANGED connVars
    /\ UNCHANGED sinkVars

\* "Command line flags take precedence"
MainApplyFlags ==
    /\ mainPc = "flags"
    /\ config' = ApplyFlags(config, flags)
    /\ mainPc' = "validate"
    /\ UNCHANGED << sshConfig, privateKey, entropy, constructed, output, now >>
    /\ UNCHANGED << flags, environ, cfgFile, validateErr >>
    /\ UNCHANGED startVars
    /\ UNCHANGED connVars
    /\ UNCHANGED sinkVars

\* a RunE that goes on whatever Validate returned
AfterValidate_Ignored(err) == "valid"

\* if err := cfg.Validate(); err != nil { return ... }
AfterValidate(err) == IF err = Nil THEN "valid" ELSE "invalid"

MainValidate ==
    /\ mainPc = "validate"
    /\ validateErr' = Validate(config)
    /\ mainPc' = AfterValidate(Validate(config))
    /\ UNCHANGED << config, sshConfig, privateKey, entropy, constructed, output, now >>
    /\ UNCHANGED << flags, environ, cfgFile >>
    /\ UNCHANGED startVars
    /\ UNCHANGED connVars
    /\ UNCHANGED sinkVars

\* credLogger, err := logger.NewCredentialsLogger(loggerConfig); ok is whether
\* the log file can be opened
MainNewCredentialsLogger(ok) ==
    /\ mainPc = "valid"
    /\ output = "none"
    /\ LET r == NewCredentialsLogger(config, ok)
       IN /\ output' = r.output
          /\ mainPc' = IF r.err = Nil THEN "valid" ELSE "loggerError"
          /\ credFile' = IF r.output = "file" THEN OpenFile(credFile) ELSE credFile
    /\ UNCHANGED << config, sshConfig, privateKey, entropy, constructed, now >>
    /\ UNCHANGED << flags, environ, cfgFile, validateErr >>
    /\ UNCHANGED << globalLog, logCalls >>
    /\ UNCHANGED startVars
    /\ UNCHANGED connVars

\* server, err := sshserver.NewServer(cfg, credLogger), with a working rand.Reader
MainNewServer ==
    /\ mainPc = "valid"
    /\ output # "none"
    /\ constructed = << >>
    /\ NewServerCall(config, TRUE)

NextMain ==
    \/ MainLoadConfig
    \/ MainApplyFlags
    \/ MainValidate
    \/ \E ok \in BOOLEAN : MainNewCredentialsLogger(ok)
    \/ MainNewServer
    \/ StartListen
    \/ StartListenFails

SpecMain == InitMain /\ [][NextMain]_vars

(***************************************************************************)
(* The program as main starts it, from the command line to the attempts    *)
(* it records, for the ways of choosing the log destination and the log    *)
(* format: --log stdout or FAKESSH_LOG_FILE=stdout or neither (the file    *)
(* credentials.log); --log-format, FAKESSH_LOG_FORMAT, log.format in a     *)
(* configuration file, or none of them.  Every step succeeds and every     *)
(* client submits root/hunter2.                                            *)
(***************************************************************************)
FormatValues == {"pretty", "text"}

RunCommandLines ==
    { [NoFlags EXCEPT !["log"] = dest, !["log-format"] = format]
      : dest \in {NoFlags["log"], [changed |-> TRUE, value |-> "stdout"]},
        format \in {NoFlags["log-format"]}
                      \cup {[changed |-> TRUE, value |-> f] : f \in FormatValues} }

RunEnvironments ==
    { [NoEnviron EXCEPT !["FAKESSH_LOG_FILE"] = dest, !["FAKESSH_LOG_FORMAT"] = format]
      : dest \in {NoEnviron["FAKESSH_LOG_FILE"], [set |-> TRUE, text |-> "stdout"]},
        format \in {NoEnviron["FAKESSH_LOG_FORMAT"]}
                      \cup {[set |-> TRUE, text |-> f] : f \in FormatValues} }

RunFiles == {NoFile, [path |-> "config.yaml", readable |-> TRUE, keys |-> {"log.format"}]}

InitRun ==
    /\ startPc = "new"
    /\ config = NoServer.config
    /\ sshConfig = NoServer.sshConfig
    /\ privateKey = NoServer.privateKey
    /\ entropy = 0
    /\ constructed = << >>
    /\ output = "none"
    /\ mainPc = "load"
    /\ flags \in RunCommandLines
    /\ environ \in RunEnvironments
    /\ cfgFile \in RunFiles
    /\ validateErr = Nil
    /\ InitIdle

NextRun ==
    \/ MainLoadConfig
    \/ MainApplyFlags
    \/ MainValidate
    \/ MainNewCredentialsLogger(TRUE)
    \/ MainNewServer
    \/ StartListen
    \/ Accept
    \/ \E c \in Conns : PasswordRequest(c, RootSubmission)
    \/ \E c \in Conns : PasswordCallbackLog(c, LogResult, TRUE)
    \/ \E c \in Conns : PasswordCallbackSleep(c)
    \/ \E c \in Conns : PasswordCallbackReturn(c)

SpecRun == InitRun /\ [][NextRun]_vars

(***************************************************************************)
(* The program started on a log file that an earlier run may have written  *)
(* to: main with no flags, no variables and no configuration file, so the  *)
(* destination is the file credentials.log, opened by NewCredentialsLogger *)
(* and written by Log for the attempts of the clients.                     *)
(***************************************************************************)
PreviousAttempt ==
    [ Timestamp  |-> 0,
      RemoteAddr |-> [ip |-> 0, port |-> 40000],
      Username   |-> Root,
      Password   |-> GoString(Hunter2) ]

PreviousRecord == Written(TimestampHook(Record(PreviousAttempt), 0), "file", Encoding("json"))

PreviousContents == { << >>, << PreviousRecord >> }

InitAppend ==
    /\ startPc = "new"
    /\ config = NoServer.config
    /\ sshConfig = NoServer.sshConfig
    /\ privateKey = NoServer.privateKey
    /\ entropy = 0
    /\ constructed = << >>
    /\ output = "none"
    /\ mainPc = "load"
    /\ flags = NoFlags
    /\ environ = NoEnviron
    /\ cfgFile = NoFile
    /\ validateErr = Nil
    /\ \E file \in PreviousContents : InitIdleWith(file)

NextAppend ==
    \/ MainLoadConfig
    \/ MainApplyFlags
    \/ MainValidate
    \/ MainNewCredentialsLogger(TRUE)
    \/ MainNewServer
    \/ StartListen
    \/ Accept
    \/ \E c \in Conns, msg \in Submissions : PasswordRequest(c, msg)
    \/ \E c \in Conns : PasswordCallbackLog(c, LogResult, TRUE)
    \/ \E c \in Conns : PasswordCallbackSleep(c)
    \/ \E c \in Conns : PasswordCallbackReturn(c)

SpecAppend == InitAppend /\ [][NextAppend]_vars

(***************************************************************************)
(* The same server started for each way of choosing the key: the default   *)
(* configuration (a generated key), a key file with the identification     *)
(* TestSSH_1.0 / Test-Banner, and the embedded key with an empty banner.   *)
(***************************************************************************)
ServerConfigs ==
    { DefaultConfig,
      [DefaultConfig EXCEPT !.GenerateKey = FALSE, !.PrivateKeyPath = ValidKeyPath,
                            !.ServerVersion = "TestSSH_1.0", !.Banner = "Test-Banner"],
      [DefaultConfig EXCEPT !.GenerateKey = FALSE, !.Banner = ""] }

InitServers == InitOf(ServerConfigs)

SpecServers == InitServers /\ [][Next]_vars

(***************************************************************************)
(* What the histories say.                                                 *)
(***************************************************************************)
\* the password requests of c whose passwordCallback has got past s.logger.Log
Served(c) ==
    IF pc[c] = "callback" THEN SubSeq(received[c], 1, Len(received[c]) - 1)
                          ELSE received[c]

\* the attempts passed to Log that carry c's remote address, in call order
LogCallsOf(c) == SelectSeq(logCalls, LAMBDA a : a.RemoteAddr = RemoteAddr(c))

\* the credential records written so far, wherever Log sent them
IsAttemptRecord(e) == e.level = "info" /\ e.event = "auth_attempt"
SinkRecords == SelectSeq(credFile \o globalLog, IsAttemptRecord)
RecordsOf(c) == SelectSeq(SinkRecords, LAMBDA e : e.remote_addr = RemoteAddr(c))

RECURSIVE SumServed(_)
SumServed(n) == IF n = 0 THEN 0 ELSE Len(Served(n)) + SumServed(n - 1)

(***************************************************************************)
(* C1.  Every password request is answered with nil permissions and a      *)
(* non-nil error, whatever the user name and password and however many     *)
(* requests came before it; no connection is ever authenticated, so none   *)
(* reaches the channel loop of handleConnection.                           *)
(***************************************************************************)
C1_AuthenticationAlwaysFails ==
    /\ \A c \in Conns : \A i \in 1..Len(replies[c]) :
          /\ replies[c][i].perms = NilPermissions
          /\ replies[c][i].err # Nil
    /\ \A c \in Conns : pc[c] # "established"

\* a connection was answered twice, the second time for the empty user name
\* with the control-character password, and is back in the handshake
C1_Witness ==
    \E c \in Conns :
       /\ Len(replies[c]) = 2
       /\ received[c][1] = RootSubmission
       /\ received[c][2] = ControlSubmission
       /\ pc[c] = "handshake"

(***************************************************************************)
(* C2.  Log is called exactly once for every password request received:    *)
(* the calls made with a connection's remote address are, one for one, the *)
(* requests that connection's callback has served, each with the submitted *)
(* user and the submitted password bytes unchanged, and there are no other *)
(* calls.                                                                  *)
(***************************************************************************)
C2_OneLogCallPerRequest ==
    /\ \A c \in Conns :
          /\ Len(LogCallsOf(c)) = Len(Served(c))
          /\ \A i \in 1..Len(Served(c)) :
                /\ LogCallsOf(c)[i].RemoteAddr = RemoteAddr(c)
                /\ LogCallsOf(c)[i].Username = Served(c)[i].user
                /\ LogCallsOf(c)[i].Password = Served(c)[i].password
    /\ Len(logCalls) = SumServed(MaxConns)

\* a connection whose two requests, one of them with control characters, were both logged
C2_Witness ==
    \E c \in Conns :
       /\ Len(LogCallsOf(c)) = 2
       /\ pc[c] = "logged"
       /\ received[c][1] = ControlSubmission
       /\ received[c][2] = RootSubmission

(***************************************************************************)
(* C3.  The sink call is over before the delay starts and before the       *)
(* rejection is returned: a connection that is sleeping or has slept has   *)
(* the record of every request it received in the sink, and the rejections *)
(* returned on a connection never outnumber its records in the sink.       *)
(***************************************************************************)
C3_RecordedBeforeRejected ==
    \A c \in Conns :
       /\ Len(replies[c]) <= Len(RecordsOf(c))
       /\ pc[c] \in {"logged", "sleep"} => Len(RecordsOf(c)) = Len(received[c])
       /\ \A i \in 1..Len(replies[c]) :
             /\ RecordsOf(c)[i].username = received[c][i].user
             /\ RecordsOf(c)[i].password = received[c][i].password

\* one connection has been rejected once and is sleeping before its second
\* rejection while another is sleeping before its first
C3_Witness ==
    \E c, d \in Conns :
       /\ c # d
       /\ Len(replies[c]) = 1 /\ pc[c] = "sleep"
       /\ Len(replies[d]) = 0 /\ pc[d] = "sleep"

(***************************************************************************)
(* C4.  With a sink whose Log returns an error: passwordCallback writes    *)
(* one "logging error" event carrying that error to the diagnostic log,    *)
(* goes on to the sleep, and returns what it returns when Log succeeds; the *)
(* library then goes on with the handshake as after any rejection.         *)
(***************************************************************************)
ErrorEvents == SelectSeq(globalLog, LAMBDA e : e.level = "error")

FailedReplies(c) == Cardinality({ i \in 1..Len(replies[c]) : replies[c][i].logErr # Nil })

RECURSIVE SumFailedLogs(_)
SumFailedLogs(n) ==
    IF n = 0 THEN 0
    ELSE FailedReplies(n)
         + (IF pc[n] \in {"logged", "sleep"} /\ logErr[n] # Nil THEN 1 ELSE 0)
         + SumFailedLogs(n - 1)

C4_SinkErrorIsAdvisory ==
    /\ [](/\ Len(ErrorEvents) = SumFailedLogs(MaxConns)
          /\ \A i \in 1..Len(ErrorEvents) : ErrorEvents[i] = ErrorEvent(SinkWriteError)
          /\ \A c \in Conns : \A i \in 1..Len(replies[c]) :
                /\ replies[c][i].perms = NilPermissions
                /\ replies[c][i].err = PermissionDenied
          /\ \A c \in Conns : pc[c] # "established")
    /\ [][\A c \in Conns :
            /\ (pc[c] = "logged" /\ logErr[c] # Nil) => pc'[c] \in {"logged", "sleep"}
            /\ (pc[c] = "sleep" /\ logErr[c] # Nil) =>
                   pc'[c] \in {"sleep", AfterFailure(c, authFailures[c] + 1)}]_vars

\* a connection whose first attempt the sink failed to log has been rejected
\* all the same, and its second attempt was logged without error
C4_Witness ==
    \E c \in Conns :
       /\ Len(replies[c]) = 1
       /\ replies[c][1].logErr = SinkWriteError
       /\ pc[c] = "sleep"
       /\ logErr[c] = Nil
       /\ Len(ErrorEvents) = 1

(***************************************************************************)
(* C5.  The result of passwordCallback does not depend on its input: any   *)
(* two results returned, on the same or on different connections, for any  *)
(* user names, passwords and attempt numbers, are the same permissions and *)
(* the same error.                                                         *)
(***************************************************************************)
C5_ResponseIndependentOfInput ==
    \A c, d \in Conns : \A i \in 1..Len(replies[c]) : \A j \in 1..Len(replies[d]) :
       /\ replies[c][i].perms = replies[d][j].perms
       /\ replies[c][i].err = replies[d][j].err

\* results were returned for a first and a second attempt on one connection and
\* for a first attempt on another, with different user names and passwords
C5_Witness ==
    \E c, d \in Conns :
       /\ c # d
       /\ Len(replies[c]) = 2
       /\ Len(replies[d]) = 1
       /\ received[c][1] # received[c][2]
       /\ received[c][1] # received[d][1]

(***************************************************************************)
(* C6 (as amended).  The duration passwordCallback sleeps lies in          *)
(* [200 ms, 500 ms): at least the fixed minimum DelayMin and less than     *)
(* DelayMin + DelayJitter, both numbers written in passwordCallback.       *)
(***************************************************************************)
C6_DelayWithinFixedBounds ==
    \A c \in Conns :
       pc[c] = "sleep" => /\ DelayMin <= delay[c]
                          /\ delay[c] < DelayMin + DelayJitter

\* two connections sleep at once, one for the shortest and one for the longest duration
C6_Witness ==
    \E c, d \in Conns :
       /\ pc[c] = "sleep" /\ delay[c] = DelayMin
       /\ pc[d] = "sleep" /\ delay[d] = DelayMin + DelayJitter - 1

\* C6 as stated: the bounds are values of the configuration, a minimum and a
\* jitter with minimum <= d <= minimum + jitter for every delay d
C6_DelayWithinConfiguredBounds ==
    \A c \in Conns :
       pc[c] = "sleep" =>
          \E minimum, jitter \in NumericSettings(config) :
             /\ minimum <= delay[c]
             /\ delay[c] <= minimum + jitter

(***************************************************************************)
(* C7.  The ServerConfig names a callback for the password method only and *)
(* does not set NoClientAuth; a connection on which only requests of other *)
(* methods arrived is never authenticated, Log is never called for it and  *)
(* the sink holds no record of it.                                         *)
(***************************************************************************)
C7_PasswordIsTheOnlyMethod ==
    /\ OfferedMethods(sshConfig) = {"password"}
    /\ ~ sshConfig.NoClientAuth
    /\ \A c \in Conns :
          received[c] = << >> =>
             /\ pc[c] # "established"
             /\ LogCallsOf(c) = << >>
             /\ RecordsOf(c) = << >>

\* a client sent two requests of other methods and no password; it is still in
\* the handshake while another connection's password attempt was recorded
C7_Witness ==
    \E c, d \in Conns :
       /\ others[c] = 2 /\ received[c] = << >> /\ pc[c] = "handshake"
       /\ Len(RecordsOf(d)) = 1

(***************************************************************************)
(* C8.  When every client that connected has submitted exactly one         *)
(* password attempt and its sink call is over, the sink holds exactly one  *)
(* record per client and no other record, and each client's record has the *)
(* user name and password submitted on the connection that has the         *)
(* record's remote address, however the handlers were interleaved.         *)
(***************************************************************************)
Clients == { c \in Conns : pc[c] # "none" }

C8_OneRecordPerClient ==
    (\A c \in Clients : Len(received[c]) = 1 /\ pc[c] # "callback") =>
       /\ Len(SinkRecords) = Cardinality(Clients)
       /\ \A c \in Clients :
             /\ Len(RecordsOf(c)) = 1
             /\ RecordsOf(c)[1].username = received[c][1].user
             /\ RecordsOf(c)[1].password = received[c][1].password

\* all MaxConns clients are inside passwordCallback at once, asleep, with
\* different submissions, and the sink holds MaxConns records
C8_Witness ==
    /\ Clients = Conns
    /\ \A c \in Conns : pc[c] = "sleep" /\ Len(received[c]) = 1
    /\ \E c, d \in Conns : received[c][1] # received[d][1]
    /\ Len(SinkRecords) = MaxConns

(***************************************************************************)
(* C9.  The records in the sink that carry a connection's remote address   *)
(* are, in the order of the sink, the password requests received on that   *)
(* connection in the order they were received.                             *)
(***************************************************************************)
Submitted(e) == [user |-> e.username, password |-> e.password]

C9_PerConnectionOrder ==
    \A c \in Conns :
       /\ Len(RecordsOf(c)) = Len(Served(c))
       /\ \A i \in 1..Len(Served(c)) : Submitted(RecordsOf(c)[i]) = Served(c)[i]

\* the sink holds a record of c, then one of d, then a different one of c
C9_Witness ==
    \E c, d \in Conns :
       /\ c # d
       /\ Len(SinkRecords) = 3
       /\ SinkRecords[1].remote_addr = RemoteAddr(c)
       /\ SinkRecords[2].remote_addr = RemoteAddr(d)
       /\ SinkRecords[3].remote_addr = RemoteAddr(c)
       /\ Submitted(SinkRecords[1]) # Submitted(SinkRecords[3])

(***************************************************************************)
(* C10.  Once the listener is bound, Start is at listener.Accept in every  *)
(* state, whatever the handlers are doing: it never waits inside a         *)
(* handler, and as long as another Accept return is within the model's     *)
(* bound, accepting a connection is enabled.                               *)
(***************************************************************************)
C10_AcceptNeverWaits ==
    startPc \notin {"listen", "returned"} =>
       /\ startPc = "accept"
       /\ accepted + acceptErrors < MaxConns => ENABLED Accept

\* one handler sleeps before its rejection, the loop is back at Accept and
\* the next connection can be accepted
C10_Witness ==
    /\ startPc = "accept"
    /\ accepted = 1
    /\ pc[1] = "sleep"
    /\ ENABLED Accept

(***************************************************************************)
(* C12.  An error returned by Accept does not end the loop: each error is  *)
(* one line on the operator output, no handler is started for it (the      *)
(* handlers are exactly the connections accepted), and after an error      *)
(* Start is at listener.Accept again, where the next connection can be     *)
(* accepted as long as the bound on Accept returns allows one.             *)
(***************************************************************************)
AcceptErrorLines ==
    SelectSeq(operatorOut, LAMBDA line : line = "Connection acceptance error")

C12_AcceptErrorDoesNotEndLoop ==
    /\ Len(AcceptErrorLines) = acceptErrors
    /\ Cardinality(Clients) = accepted
    /\ acceptErrors > 0 =>
          /\ startPc = "accept"
          /\ accepted + acceptErrors < MaxConns => ENABLED Accept

\* Accept has failed once before any connection came in, the error is the
\* line after the three startup lines, and a connection can now be accepted
C12_Witness ==
    /\ acceptErrors = 1
    /\ accepted = 0
    /\ operatorOut = StartupLines \o << "Connection acceptance error" >>
    /\ ENABLED Accept

(***************************************************************************)
(* C13.  Once the listening endpoint is lost after a successful bind, so   *)
(* that every further Accept fails, the accept loop ends and Start         *)
(* returns.                                                                *)
(***************************************************************************)
C13_StartReturnsWhenListenerGone ==
    (listener = "closed") ~> (startPc = "returned")

\* the endpoint was lost after a first connection, Accept has failed on it as
\* often as the bound counts, and Start is calling Accept once more
C13_Witness ==
    /\ listener = "closed"
    /\ accepted = 1
    /\ acceptErrors = MaxConns - 1
    /\ Len(AcceptErrorLines) = MaxConns - 1
    /\ startPc = "accept"
    /\ ENABLED AcceptFailsLost

(***************************************************************************)
(* C11.  A connection that is stalled, in its handshake or in the delay    *)
(* before a rejection, holds up nobody else: while it is stalled the loop  *)
(* can accept the next connection and every step of another connection's   *)
(* passwordCallback is enabled; and with the first connection free to      *)
(* stall for ever, a password attempt of any other connection leads to a   *)
(* state in which all its attempts are in the sink and all were rejected.  *)
(***************************************************************************)
Stalled(c) == pc[c] \in {"handshake", "sleep"}

C11_StalledConnectionStarvesNoOne ==
    /\ [](\A c \in Conns : Stalled(c) =>
             /\ (startPc \notin {"listen", "returned"} /\ accepted + acceptErrors < MaxConns)
                   => ENABLED Accept
             /\ \A d \in Conns \ {c} :
                   /\ pc[d] = "callback" => ENABLED PasswordCallbackLog(d, LogResult, TRUE)
                   /\ pc[d] = "logged" => ENABLED PasswordCallbackSleep(d)
                   /\ pc[d] = "sleep" => ENABLED PasswordCallbackReturn(d))
    /\ \A d \in Conns \ {1} :
          (pc[d] = "callback")
             ~> (/\ pc[d] \in {"handshake", "closed"}
                 /\ Len(RecordsOf(d)) = Len(received[d])
                 /\ Len(replies[d]) = Len(received[d]))

\* the first connection was recorded first and is still in its delay, not yet
\* rejected, while the second was recorded after it and has been rejected
C11_Witness ==
    /\ pc[1] = "sleep" /\ Len(replies[1]) = 0
    /\ Len(SinkRecords) = 2
    /\ SinkRecords[1].remote_addr = RemoteAddr(1)
    /\ SinkRecords[2].remote_addr = RemoteAddr(2)
    /\ Len(replies[2]) = 1

(***************************************************************************)
(* C14.  Every call of NewServer runs exactly one key strategy, chosen by  *)
(* precedence: generatePrivateKey when GenerateKey is set, whatever        *)
(* PrivateKeyPath says (the path is not read); otherwise loadPrivateKey    *)
(* when PrivateKeyPath is not empty; otherwise the parse of the embedded   *)
(* key.  A call that succeeds holds the key of that strategy.              *)
(***************************************************************************)
Constructions == { constructed[i] : i \in 1..Len(constructed) }

StrategyOf(cfg) ==
    IF cfg.GenerateKey THEN "generated"
    ELSE IF cfg.PrivateKeyPath # "" THEN "file" ELSE "embedded"

C14_OneKeyStrategyByPrecedence ==
    \A e \in Constructions :
       /\ Len(e.calls) = 1
       /\ StrategyOf(e.cfg) = "generated" <=> e.calls[1] = "generatePrivateKey"
       /\ StrategyOf(e.cfg) = "file" <=> e.calls[1] = "loadPrivateKey"
       /\ StrategyOf(e.cfg) = "embedded" <=> e.calls[1] = "ParsePrivateKey(defaultHostKey)"
       /\ e.err = Nil => e.server[1].privateKey.kind = StrategyOf(e.cfg)

\* NewServer was called with GenerateKey and a path that does not exist, and
\* generated a key; with a path and no GenerateKey, and loaded the file; with
\* neither, and took the embedded key
C14_Witness ==
    /\ Len(constructed) = 3
    /\ constructed[1].cfg.GenerateKey /\ constructed[1].cfg.PrivateKeyPath = MissingKeyPath
    /\ constructed[1].server # NilServer
    /\ constructed[1].server[1].privateKey.kind = "generated"
    /\ constructed[2].cfg.PrivateKeyPath = ValidKeyPath
    /\ constructed[2].server # NilServer
    /\ constructed[2].server[1].privateKey = FileKey
    /\ constructed[3].cfg.PrivateKeyPath = "" /\ ~ constructed[3].cfg.GenerateKey
    /\ constructed[3].server # NilServer
    /\ constructed[3].server[1].privateKey = EmbeddedKey

(***************************************************************************)
(* C15.  When the load strategy is selected and the file does not exist or *)
(* is not a key, NewServer returns an error and a nil server after calling *)
(* loadPrivateKey and nothing else: no key is generated and the embedded   *)
(* key is not used.  No listener is bound for a server that was not built: *)
(* wherever a listener exists, the last call of NewServer succeeded.       *)
(***************************************************************************)
UnusableKeyFile(cfg) ==
    /\ StrategyOf(cfg) = "file"
    /\ FileContents(cfg.PrivateKeyPath) # "pem"

C15_UnusableKeyFileFailsConstruction ==
    /\ \A e \in Constructions :
          UnusableKeyFile(e.cfg) =>
             /\ e.server = NilServer
             /\ e.err # Nil
             /\ e.calls = << "loadPrivateKey" >>
    /\ (constructed # << >> /\ UnusableKeyFile(constructed[Len(constructed)].cfg)) =>
          /\ startPc = "new"
          /\ listener = "none"
          /\ privateKey = NoKey
          /\ ~ ENABLED StartListen

\* NewServer failed for a path that does not exist and again for a file that
\* is not a key, each with its own error, and there is nothing to start
C15_Witness ==
    /\ Len(constructed) = 2
    /\ constructed[1].cfg.PrivateKeyPath = MissingKeyPath
    /\ constructed[1].err = "key loading error: failed to read key file"
    /\ constructed[2].cfg.PrivateKeyPath = GarbageKeyPath
    /\ constructed[2].err = "key loading error: failed to parse SSH key"
    /\ constructed[2].server = NilServer
    /\ startPc = "new"

(***************************************************************************)
(* C16.  NewServer returns exactly one of a server and an error.  With a   *)
(* nil error the server is not nil, holds a signing key and a ServerConfig *)
(* whose ServerVersion is config.GetFullServerVersion() and whose host key *)
(* is that signing key, and refers to the configuration it was given; with *)
(* an error the server is nil.                                             *)
(***************************************************************************)
C16_ServerOrError ==
    \A e \in Constructions :
       \/ /\ e.err = Nil
          /\ e.server # NilServer
          /\ e.server[1].privateKey # NoKey
          /\ DOMAIN e.server[1].sshConfig = DOMAIN ServerSSHConfig(e.cfg, NoKey)
          /\ e.server[1].sshConfig.ServerVersion = GetFullServerVersion(e.cfg)
          /\ e.server[1].sshConfig.HostKeys = << e.server[1].privateKey >>
          /\ e.server[1].config = e.cfg
       \/ /\ e.err # Nil
          /\ e.server = NilServer

\* NewServer failed because no key could be generated, failed because the
\* key file is missing, and then succeeded with the embedded key
C16_Witness ==
    /\ Len(constructed) = 3
    /\ constructed[1].err = "key generation error: failed to generate RSA key"
    /\ constructed[1].server = NilServer
    /\ constructed[2].err = "key loading error: failed to read key file"
    /\ constructed[2].server = NilServer
    /\ constructed[3].err = Nil
    /\ constructed[3].server # NilServer
    /\ privateKey = EmbeddedKey

(***************************************************************************)
(* C17.  With the embedded-key strategy NewServer always succeeds and any  *)
(* two constructions hold the same key, the one in defaultHostKey.  With   *)
(* the generate strategy every successful construction called              *)
(* generatePrivateKey itself and holds a key of its own: no two of them    *)
(* hold the same key, and none holds the embedded key or a file's.         *)
(***************************************************************************)
Built(i) == constructed[i].server[1]

C17_EmbeddedKeyFixedGeneratedKeyFresh ==
    \A i, j \in 1..Len(constructed) :
       /\ StrategyOf(constructed[i].cfg) = "embedded" =>
             /\ constructed[i].err = Nil
             /\ Built(i).privateKey = EmbeddedKey
             /\ StrategyOf(constructed[j].cfg) = "embedded" =>
                   Built(i).privateKey = Built(j).privateKey
       /\ (StrategyOf(constructed[i].cfg) = "generated" /\ constructed[i].err = Nil) =>
             /\ constructed[i].calls = << "generatePrivateKey" >>
             /\ Built(i).privateKey.kind = "generated"
             /\ (i # j /\ constructed[j].err = Nil) =>
                   Built(i).privateKey # Built(j).privateKey

\* two servers built with the embedded key under different identifications
\* hold one key, and two servers built by generation hold two keys
C17_Witness ==
    /\ Len(constructed) = 4
    /\ StrategyOf(constructed[1].cfg) = "embedded"
    /\ StrategyOf(constructed[2].cfg) = "embedded"
    /\ constructed[1].cfg # constructed[2].cfg
    /\ Built(1).privateKey = Built(2).privateKey
    /\ constructed[3].cfg = DefaultConfig /\ constructed[3].err = Nil
    /\ constructed[4].cfg = DefaultConfig /\ constructed[4].err = Nil
    /\ Built(3).privateKey # Built(4).privateKey

(***************************************************************************)
(* C19.  The identification string of a server is "SSH-2.0-", the          *)
(* configured ServerVersion, one space and the configured Banner, for      *)
(* every pair of values; NewServer computes it and stores it in            *)
(* sshConfig.ServerVersion, where it is what a started server announces.   *)
(***************************************************************************)
Identification(version, bannerText) == "SSH-2.0-" \o version \o " " \o bannerText

C19_IdentificationString ==
    /\ \A e \in Constructions :
          e.err = Nil =>
             /\ e.server[1].sshConfig.ServerVersion =
                   Identification(e.cfg.ServerVersion, e.cfg.Banner)
             /\ (e.cfg.ServerVersion = "TestSSH_1.0" /\ e.cfg.Banner = "Test-Banner") =>
                   e.server[1].sshConfig.ServerVersion = "SSH-2.0-TestSSH_1.0 Test-Banner"
    /\ startPc \in {"listen", "accept", "returned"} =>
          sshConfig.ServerVersion = Identification(config.ServerVersion, config.Banner)

\* a server was built for TestSSH_1.0 / Test-Banner, then one for the default
\* version with an empty banner, which was started and announces the version
\* followed by a space
C19_Witness ==
    /\ Len(constructed) = 2
    /\ constructed[1].err = Nil
    /\ constructed[1].server[1].sshConfig.ServerVersion = "SSH-2.0-TestSSH_1.0 Test-Banner"
    /\ constructed[2].cfg.Banner = ""
    /\ startPc = "accept"
    /\ sshConfig.ServerVersion = "SSH-2.0-OpenSSH_8.2p1 "

(***************************************************************************)
(* C18.  The signing key is resolved once, by the one call of NewServer    *)
(* that built the server.  No step of Start, handleConnection,             *)
(* passwordCallback or bannerCallback changes the key, the ServerConfig or *)
(* the configuration, none draws another key, and the key exchange of      *)
(* every connection is signed with the key chosen at construction.         *)
(***************************************************************************)
C18_KeyFixedAfterConstruction ==
    /\ [](/\ Len(constructed) = 1
          /\ Len(constructed[1].calls) = 1
          /\ privateKey = Built(1).privateKey
          /\ sshConfig.HostKeys = << privateKey >>
          /\ \A c \in Clients : hostKey[c] = privateKey)
    /\ [][/\ privateKey' = privateKey
          /\ sshConfig' = sshConfig
          /\ config' = config
          /\ entropy' = entropy]_vars

\* the server holds the key of its key file; every connection the bound
\* allows was accepted and signed with it, the first has since been sent the
\* banner and been rejected once
C18_Witness ==
    /\ privateKey = FileKey
    /\ Clients = Conns
    /\ \A c \in Conns : hostKey[c] = FileKey
    /\ Len(banner[1]) = 1
    /\ Len(replies[1]) = 1

(***************************************************************************)
(* C20.  The banner sent on a connection is the greeting "Welcome to       *)
(* Ubuntu <Banner> (GNU/Linux 5.4.0-109-generic x86_64)" with the          *)
(* configured Banner in it, followed by an empty line.  It is sent once,   *)
(* with the first request, and is the same on every connection: it does    *)
(* not depend on the user, the remote address or the requests made.        *)
(***************************************************************************)
Greeting(bannerText) ==
    "Welcome to Ubuntu " \o bannerText \o " (GNU/Linux 5.4.0-109-generic x86_64)\n\n"

C20_BannerDependsOnConfigOnly ==
    /\ \A c \in Conns :
          banner[c] = IF MsgCount(c) = 0 THEN << >> ELSE << Greeting(config.Banner) >>
    /\ config.Banner = "Test-Banner" =>
          \A c \in Conns : \A i \in 1..Len(banner[c]) :
             banner[c][i] = "Welcome to Ubuntu Test-Banner (GNU/Linux 5.4.0-109-generic x86_64)\n\n"
    /\ \A c, d \in Conns : (MsgCount(c) > 0 /\ MsgCount(d) > 0) => banner[c] = banner[d]

\* with the banner Test-Banner: one connection began as root and has been
\* rejected once, another began with the empty user name, and both were sent
\* the same greeting
C20_Witness ==
    \E c, d \in Conns :
       /\ others[c] = 0 /\ Len(replies[c]) = 1 /\ received[c][1] = RootSubmission
       /\ others[d] = 0 /\ received[d] = << ControlSubmission >>
       /\ banner[c] = << "Welcome to Ubuntu Test-Banner (GNU/Linux 5.4.0-109-generic x86_64)\n\n" >>
       /\ banner[d] = banner[c]

(***************************************************************************)
(* C26.  Start binds, then prints, then accepts.  Before the bind, and     *)
(* after a bind that failed (Start has returned the error), nothing was    *)
(* printed and nothing was accepted.  After a bind that succeeded the      *)
(* output begins with the port line, the version line and the fingerprint  *)
(* line, printed before anything Accept returned, and the port line and    *)
(* the fingerprint line occur exactly once however long the loop runs.     *)
(***************************************************************************)
Occurrences(line) == Len(SelectSeq(operatorOut, LAMBDA l : l = line))

C26_BindThenDiagnosticsThenAccept ==
    /\ startPc \in {"listen", "returned"} =>
          /\ operatorOut = << >>
          /\ accepted = 0
          /\ acceptErrors = 0
          /\ listener = "none"
    /\ startPc = "accept" =>
          /\ listener # "none"
          /\ Len(operatorOut) = 3 + acceptErrors
          /\ operatorOut[1] = "Fake SSH server started on port"
          /\ operatorOut[3] = "Server fingerprint"
          /\ Occurrences("Fake SSH server started on port") = 1
          /\ Occurrences("Server fingerprint") = 1
    /\ (accepted > 0 \/ acceptErrors > 0) => Occurrences("Server fingerprint") = 1

\* the loop has run for as long as the bound allows, with an error and a
\* connection, and the startup lines are still the first three and the only ones
C26_Witness ==
    /\ startPc = "accept"
    /\ accepted = 1
    /\ acceptErrors = MaxConns - 1
    /\ Len(operatorOut) = 3 + acceptErrors
    /\ pc[1] = "sleep"

(***************************************************************************)
(* C21: whatever ends a connection's handler (NewServerConn returning an   *)
(* error, the client going away, the channel stream ending), the           *)
(* connection is closed when the handler has returned: the net.Conn is     *)
(* closed, and so is the ServerConn when there was one; until then the      *)
(* net.Conn is open.                                                       *)
(***************************************************************************)
C21_ClosedWhenHandlerEnds ==
    \A c \in Conns :
        /\ pc[c] = "closed" => transport[c] = "closed" /\ sshConn[c] # "open"
        /\ pc[c] \notin {"none", "closed"} => transport[c] = "open"
        /\ pc[c] = "established" => sshConn[c] = "open"

C21_Witness ==
    /\ pc[1] = "closed" /\ sshConn[1] = "none" /\ transport[1] = "closed"
    /\ pc[2] = "closed" /\ sshConn[2] = "closed" /\ transport[2] = "closed"
    /\ Len(chanReplies[2]) = 1

(***************************************************************************)
(* C22: a handshake that fails, because the client aborts or because it    *)
(* has used up its authentication attempts, is absorbed by the handler:    *)
(* the step that ends the handler prints nothing, writes nothing to the    *)
(* operator log, and leaves the accept loop where it was, so Start goes on *)
(* accepting.                                                              *)
(***************************************************************************)
C22_FailedHandshakeIsSilent ==
    [][\A c \in Conns :
          (pc[c] \notin {"closed", "established"} /\ pc'[c] = "closed")
            => /\ operatorOut' = operatorOut
               /\ globalLog' = globalLog
               /\ startPc' = startPc /\ listener' = listener
               /\ accepted' = accepted /\ acceptErrors' = acceptErrors]_vars

C22_Witness ==
    /\ pc[PersistentClient] = "closed"
    /\ authFailures[PersistentClient] = MaxAuthTries
    /\ Len(replies[PersistentClient]) = MaxAuthTries
    /\ accepted = 1 /\ acceptErrors = 0
    /\ Len(operatorOut) = 3 /\ globalLog = << >>
    /\ ENABLED Accept

(***************************************************************************)
(* C24: on a connection that got past the handshake every channel open,    *)
(* of whatever type and however many, is rejected with the reason          *)
(* "prohibited" and none is accepted; the handler is ready to reject the   *)
(* next one for as long as the channel stream lasts, and when the stream   *)
(* ends it returns and the connection is closed.                           *)
(***************************************************************************)
C24_EveryChannelOpenProhibited ==
    \A c \in Conns :
        /\ \A i \in 1..Len(chanReplies[c]) :
              /\ ~chanReplies[c][i].accepted
              /\ chanReplies[c][i].reason = "prohibited"
        /\ chanReplies[c] # << >> => pc[c] \in {"established", "closed"}
        /\ (pc[c] = "established" /\ SumMsgs(MaxConns) < MaxMsgs)
              => \A type \in ChannelTypes : ENABLED ChannelOpen(c, type)
        /\ (pc[c] = "closed" /\ chanReplies[c] # << >>)
              => transport[c] = "closed" /\ sshConn[c] = "closed"

C24_Witness ==
    /\ pc[1] = "closed" /\ transport[1] = "closed" /\ sshConn[1] = "closed"
    /\ Len(chanReplies[1]) = MaxMsgs
    /\ {chanReplies[1][i].type : i \in 1..Len(chanReplies[1])} = ChannelTypes

(***************************************************************************)
(* C25, as stated: no response is ever sent to a global request.           *)
(***************************************************************************)
C25_NoResponseToGlobalRequests ==
    \A c \in Conns : \A i \in 1..Len(reqReplies[c]) : reqReplies[c][i].reply = "none"

(***************************************************************************)
(* C25, amended: on a connection that got past the handshake no global     *)
(* request is honoured: a request that asks for a reply is answered with a *)
(* failure, a request that does not is answered with nothing; and a global *)
(* request neither ends the handler nor keeps its channel loop from        *)
(* rejecting the next channel open.                                        *)
(***************************************************************************)
C25_GlobalRequestsRefused ==
    /\ [](\A c \in Conns :
            /\ \A i \in 1..Len(reqReplies[c]) :
                  /\ reqReplies[c][i].reply # "success"
                  /\ reqReplies[c][i].reply = "failure" <=> reqReplies[c][i].wantReply
                  /\ reqReplies[c][i].reply = "none" <=> ~reqReplies[c][i].wantReply
            /\ (reqReplies[c] # << >> /\ pc[c] = "established" /\ SumMsgs(MaxConns) < MaxMsgs)
                  => ENABLED ChannelOpen(c, "session"))
    /\ [][\A c \in Conns :
            reqReplies[c]' # reqReplies[c]
              => pc'[c] = "established" /\ chanReplies'[c] = chanReplies[c]]_vars

C25_Witness ==
    /\ pc[1] = "established"
    /\ Len(reqReplies[1]) = 2 /\ Len(chanReplies[1]) = 1
    /\ reqReplies[1][1].wantReply /\ reqReplies[1][1].reply = "failure"
    /\ ~reqReplies[1][2].wantReply /\ reqReplies[1][2].reply = "none"

(***************************************************************************)
(* C23: what happens in one connection's handler stays there.  A step of   *)
(* the handler of c (a failed handshake, a failed sink write, a rejected   *)
(* channel or request among them) changes nothing of any other connection, *)
(* leaves the accept loop running where it was, leaves the server's        *)
(* configuration and host key alone, and only adds to the sink and to the  *)
(* operator log: what was written stays as it was.                         *)
(***************************************************************************)
ConnState(c) ==
    << pc[c], transport[c], sshConn[c], chanReplies[c], reqReplies[c], hostKey[c], banner[c],
       cur[c], logErr[c], delay[c], authFailures[c], received[c], others[c], replies[c] >>

IsPrefix(s, t) == Len(s) <= Len(t) /\ SubSeq(t, 1, Len(s)) = s

HandlerStep(c) == pc[c] # "none" /\ ConnState(c)' # ConnState(c)

C23_HandlerErrorsContained ==
    [][\A c \in Conns :
          HandlerStep(c)
            => /\ \A d \in Conns \ {c} : ConnState(d)' = ConnState(d)
               /\ startPc = "accept" /\ startPc' = "accept"
               /\ listener' = listener /\ accepted' = accepted /\ acceptErrors' = acceptErrors
               /\ config' = config /\ sshConfig' = sshConfig /\ privateKey' = privateKey
               /\ IsPrefix(credFile, credFile') /\ IsPrefix(globalLog, globalLog')]_vars

C23_Witness ==
    /\ pc[1] = "closed" /\ sshConn[1] = "none"
    /\ Len(replies[2]) = 1 /\ replies[2][1].logErr = SinkWriteError
    /\ pc[2] = "established" /\ Len(chanReplies[2]) = 1
    /\ Len(ErrorEvents) = 1
    /\ startPc = "accept"

(***************************************************************************)
(* The configuration main went on with, and a setting's value by the       *)
(* precedence of C27: the flag if it was passed, else the variable of the  *)
(* environment if it counts as set, else the file's value if a file was    *)
(* given and holds the key, else the default.                              *)
(***************************************************************************)
Resolved == IF constructed # << >> THEN constructed[1].cfg ELSE config

FromText(flag, text) ==
    CASE flag = "port"         -> ParseInt(text)
      [] flag = "generate-key" -> ParseBool(text)
      [] OTHER                 -> text

ByPrecedence(flag, envIsSet) ==
    IF flags[flag].changed THEN flags[flag].value
    ELSE IF envIsSet THEN FromText(flag, environ[EnvKey(KeyOfSetting(flag))].text)
    ELSE IF cfgFile.path # "" /\ FileKeyOfSetting(flag) \in cfgFile.keys
           THEN FileValue(FileKeyOfSetting(flag))
    ELSE FlagDefault(flag)

FlagsApplied == mainPc \in {"validate", "valid", "invalid"}

(***************************************************************************)
(* C27, as stated: every setting is resolved by precedence, a variable of  *)
(* the environment counting whenever it is set.                            *)
(***************************************************************************)
C27_PrecedenceOfSetVariables ==
    FlagsApplied =>
        \A flag \in Settings :
            Field(Resolved, flag) = ByPrecedence(flag, environ[EnvKey(KeyOfSetting(flag))].set)

(***************************************************************************)
(* C27, amended: every setting is resolved by precedence, a variable of    *)
(* the environment counting when it is set to a non-empty value; a flag    *)
(* that was not passed overrides nothing.                                  *)
(***************************************************************************)
C27_PrecedenceOfSettings ==
    FlagsApplied =>
        \A flag \in Settings :
            Field(Resolved, flag) =
                ByPrecedence(flag, /\ environ[EnvKey(KeyOfSetting(flag))].set
                                   /\ environ[EnvKey(KeyOfSetting(flag))].text # "")

C27_Witness ==
    /\ mainPc = "valid"
    /\ flags["banner"].changed /\ ~flags["port"].changed
    /\ \A name \in EnvNames \ {ReadmeKeyVariable} : environ[name].set /\ environ[name].text # ""
    /\ cfgFile.keys = FileKeys
    /\ Resolved.Banner = "Flag-Banner"
    /\ Resolved.Port = 5555
    /\ Resolved.Log.Format = "text"

(***************************************************************************)
(* C28: with FAKESSH_KEY set to the path of a key file, generate-key false *)
(* and --key not passed, the resolved PrivateKeyPath is the variable's     *)
(* value, and the server NewServer builds has the key of that file.        *)
(***************************************************************************)
ReadmeKeyCase ==
    /\ FlagsApplied
    /\ environ[ReadmeKeyVariable].set /\ environ[ReadmeKeyVariable].text # ""
    /\ ~flags["key"].changed
    /\ ~Resolved.GenerateKey

C28_KeyPathFromReadmeVariable ==
    ReadmeKeyCase =>
        /\ Resolved.PrivateKeyPath = environ[ReadmeKeyVariable].text
        /\ constructed # << >> => privateKey = FileKey

C28_Witness ==
    /\ ReadmeKeyCase
    /\ constructed # << >>
    /\ environ[ReadmeKeyVariable].text = ValidKeyPath
    /\ Resolved.PrivateKeyPath = ""
    /\ privateKey = EmbeddedKey

(***************************************************************************)
(* C29: Validate lets a port through only if it is positive and less than  *)
(* 65536: a port <= 0 or >= 65536 gives an error, a port in 1..65535 does  *)
(* not give a port error.                                                  *)
(***************************************************************************)
C29_PortPositiveAndBelow65536 ==
    mainPc \in {"valid", "invalid"} =>
        /\ (Resolved.Port <= 0 \/ Resolved.Port >= 65536) => validateErr # Nil
        /\ Resolved.Port \in 1..65535 => validateErr \notin {PortNotPositive, PortTooLarge}

C29_Witness ==
    /\ mainPc = "valid"
    /\ Resolved.Port = 0
    /\ validateErr = Nil
    /\ constructed # << >>

(***************************************************************************)
(* C30: the record the sink writes for an attempt carries the attempt's    *)
(* own Timestamp, the time passwordCallback took before it called Log, and *)
(* not the time of the write: the i-th record's time is the Timestamp of   *)
(* the i-th attempt passed to Log.                                         *)
(***************************************************************************)
C30_RecordCarriesCaptureTime ==
    \A i \in 1..Len(SinkRecords) : SinkRecords[i].time = logCalls[i].Timestamp

C30_Witness ==
    /\ Len(SinkRecords) = 1 /\ Len(logCalls) = 1
    /\ logCalls[1].Timestamp = 0
    /\ SinkRecords[1].time = 1
    /\ pc[1] = "logged"

(***************************************************************************)
(* C36: startup takes its steps in one order, LoadConfig, the flags,       *)
(* Validate, NewCredentialsLogger, NewServer, net.Listen, and a step that  *)
(* fails is the last: the sink is opened only for a configuration Validate *)
(* let through, the server is built only with an open sink, the listener   *)
(* is bound only for a server that was built, and after a failed step      *)
(* nothing of the later steps has happened.                                *)
(***************************************************************************)
C36_StartupOrder ==
    /\ output # "none" => mainPc = "valid" /\ validateErr = Nil
    /\ mainPc \in {"load", "flags", "validate", "failed", "invalid", "loggerError"}
          => /\ output = "none" /\ constructed = << >>
             /\ listener = "none" /\ startPc = "new" /\ accepted = 0
    /\ constructed # << >> => output \in {"file", "stdout"} /\ Len(constructed) = 1
    /\ (constructed # << >> /\ constructed[1].err # Nil)
          => listener = "none" /\ startPc = "new" /\ accepted = 0
    /\ listener # "none" => constructed # << >> /\ constructed[1].err = Nil
    /\ startPc \in {"accept", "returned"} => constructed # << >> /\ constructed[1].err = Nil

C36_Witness ==
    /\ mainPc = "valid" /\ output = "file"
    /\ constructed # << >> /\ constructed[1].err # Nil
    /\ listener = "none" /\ startPc = "new"

(***************************************************************************)
(* C35: a configuration that Validate lets through with a key path (and    *)
(* GenerateKey false) names a file that exists and can be read, so that    *)
(* NewServer's read of it does not fail.                                   *)
(***************************************************************************)
KeyPathValidated ==
    /\ mainPc = "valid" /\ validateErr = Nil
    /\ Resolved.PrivateKeyPath # "" /\ ~Resolved.GenerateKey

C35_ValidatedKeyFileIsReadable ==
    KeyPathValidated =>
        /\ FileContents(Resolved.PrivateKeyPath) \notin {"absent", "unreadable"}
        /\ constructed # << >>
              => constructed[1].err # "key loading error: failed to read key file"

C35_Witness ==
    /\ KeyPathValidated
    /\ Resolved.PrivateKeyPath = UnreadableKeyPath
    /\ constructed # << >>
    /\ constructed[1].err = "key loading error: failed to read key file"
    /\ listener = "none"

(***************************************************************************)
(* C31: the records of the attempts are on the stream the configuration    *)
(* names: on the program's standard output when the log destination is     *)
(* "stdout", in the file when it is a path.                                *)
(***************************************************************************)
C31_RecordsOnConfiguredDestination ==
    \A i \in 1..Len(SinkRecords) :
        SinkRecords[i].stream = IF Resolved.Log.File = "stdout" THEN "stdout" ELSE "file"

C31_Witness ==
    /\ Len(SinkRecords) = 1
    /\ Resolved.Log.File = "stdout" /\ output = "stdout"
    /\ SinkRecords[1].stream = "stderr"
    /\ environ["FAKESSH_LOG_FILE"].set /\ ~flags["log"].changed

(***************************************************************************)
(* C32: every record is in the format of the resolved configuration,       *)
(* console lines for "pretty" and JSON otherwise, whichever source gave    *)
(* the format and whichever destination is used.                           *)
(***************************************************************************)
C32_RecordsInConfiguredFormat ==
    \A i \in 1..Len(SinkRecords) :
        SinkRecords[i].encoding = IF Resolved.Log.Format = "pretty" THEN "console" ELSE "json"

C32_Witness ==
    /\ Len(SinkRecords) = 1
    /\ environ["FAKESSH_LOG_FILE"].text = "stdout"
    /\ environ["FAKESSH_LOG_FORMAT"].text = "pretty"
    /\ flags = NoFlags /\ cfgFile = NoFile
    /\ Resolved.Log.Format = "pretty"
    /\ SinkRecords[1].encoding = "json"

(***************************************************************************)
(* C38: the format "text" is written exactly as "json" is: under either,   *)
(* the i-th record is the JSON event of the i-th attempt passed to Log.    *)
(***************************************************************************)
JSONRecord(attempt, t, out) == Written(TimestampHook(Record(attempt), t), LogStream(out), "json")

C38_TextIsJSON ==
    (constructed # << >> /\ Resolved.Log.Format \in {"text", "json"}) =>
        /\ Len(SinkRecords) = Len(logCalls)
        /\ \A i \in 1..Len(SinkRecords) :
              SinkRecords[i] = JSONRecord(logCalls[i], SinkRecords[i].time, output)

C38_Witness ==
    /\ validateErr = Nil /\ mainPc = "valid" /\ constructed # << >>
    /\ Resolved.Log.Format = "text"
    /\ output = "file"
    /\ Len(SinkRecords) = 2
    /\ SinkRecords[1].encoding = "json" /\ SinkRecords[2].encoding = "json"

(***************************************************************************)
(* C33: on a file destination the sink is append-only.  Opening the file   *)
(* and every later step leave what the file held in place and unchanged;   *)
(* each call of Log adds exactly one record at the end, holding the remote *)
(* address, the username and the password of the attempt; so the file is   *)
(* what it held before the start followed by the records of the attempts   *)
(* in the order of the Log calls.                                          *)
(***************************************************************************)
RecordHolds(e, attempt) ==
    /\ e.event = "auth_attempt"
    /\ e.remote_addr = attempt.RemoteAddr
    /\ e.username = attempt.Username
    /\ e.password = attempt.Password

FileIsPreviousThenAttempts ==
    \E old \in PreviousContents :
        /\ Len(credFile) = Len(old) + Len(logCalls)
        /\ IsPrefix(old, credFile)
        /\ \A i \in 1..Len(logCalls) : RecordHolds(credFile[Len(old) + i], logCalls[i])

C33_SinkAppendOnly ==
    /\ [](output \in {"none", "file"} /\ FileIsPreviousThenAttempts)
    /\ [][/\ IsPrefix(credFile, credFile')
          /\ Len(credFile') - Len(credFile) = Len(logCalls') - Len(logCalls)
          /\ Len(logCalls') - Len(logCalls) \in {0, 1}
          /\ logCalls' # logCalls =>
                RecordHolds(credFile'[Len(credFile')], logCalls'[Len(logCalls')])]_vars

C33_Witness ==
    /\ output = "file"
    /\ Len(logCalls) = 2 /\ logCalls[1].Username # logCalls[2].Username
    /\ Len(credFile) = 3
    /\ credFile[1] = PreviousRecord
    /\ RecordHolds(credFile[2], logCalls[1])
    /\ RecordHolds(credFile[3], logCalls[2])

(***************************************************************************)
(* C34: with the handlers scheduled fairly, a password request that has    *)
(* been received is answered: the passwordCallback running for it ends,    *)
(* after the call of Log and the delay, and then every password request    *)
(* received on the connection has its answer, which is the authentication  *)
(* failure with nil permissions; no request is answered with success.      *)
(***************************************************************************)
InCallback(c) == pc[c] \in {"callback", "logged", "sleep"}

AllAnswered(c) ==
    /\ ~InCallback(c)
    /\ Len(replies[c]) = Len(received[c])

AnswersAreRejections(c) ==
    /\ Len(replies[c]) = Len(received[c]) - (IF InCallback(c) THEN 1 ELSE 0)
    /\ \A i \in 1..Len(replies[c]) :
          replies[c][i].err = PermissionDenied /\ replies[c][i].perms = NilPermissions
    /\ pc[c] # "established"

C34_EveryAttemptAnswered ==
    /\ [](\A c \in Conns : AnswersAreRejections(c))
    /\ \A c \in Conns : InCallback(c) ~> AllAnswered(c)

C34_Witness ==
    /\ Len(received[1]) = 2
    /\ AllAnswered(1)
    /\ replies[1][2].err = PermissionDenied
    /\ InCallback(2) /\ Len(received[2]) = 1 /\ replies[2] = << >>

(***************************************************************************)
(* C37: Log never reports failure.  Whatever the attempt and whatever the  *)
(* state of its output (open, closed, failing to write), Log returns nil:  *)
(* passwordCallback never holds an error from Log, no answer was given     *)
(* after a Log error, and the "logging error" diagnostic is never emitted; *)
(* a record that could not be written is simply missing.                   *)
(***************************************************************************)
C37_LogNeverFails ==
    /\ \A c \in Conns :
          /\ logErr[c] = Nil
          /\ \A i \in 1..Len(replies[c]) : replies[c][i].logErr = Nil
    /\ ErrorEvents = << >>
    /\ Len(SinkRecords) <= Len(logCalls)

C37_Witness ==
    /\ Len(logCalls) = 2
    /\ Len(SinkRecords) = 1 /\ SinkRecords[1].remote_addr = logCalls[2].RemoteAddr
    /\ logCalls[1].RemoteAddr = RemoteAddr(1)
    /\ Len(replies[1]) = 1 /\ replies[1][1].logErr = Nil
    /\ replies[1][1].err = PermissionDenied
    /\ ErrorEvents = << >>

=============================================================================
